---- MODULE Spec2Model ----
(***************************************************************************)
(* Multilevel (bundle-space) motion planning core of ompl:                 *)
(*   - BundleSpaceGraph: configuration store, roadmap graph, nearest-      *)
(*     neighbour index, disjoint sets (BundleSpaceGraph.cpp)               *)
(*   - QRRTStarImpl (multilevel and quotientspace variants): RRT* grow     *)
(*   - QMPImpl: PRM-like grow                                              *)
(*   - BundleSpaceSequence: the importance-queue scheduler                 *)
(*                                                                         *)
(* States of a level live on a line of NPoints points; distance is the     *)
(* absolute difference, motionCost is the length of a motion or its        *)
(* square.  Vertex descriptors and configuration handles are 1-based here  *)
(* (0 is nullptr); vertex m of the model is boost vertex m-1.  The edges   *)
(* of a roadmap are a bag of vertex pairs.  The body of                    *)
(* BundleSpaceSequence::solve follows section 4.7 of the specification;    *)
(* the comparator of its queue and the levels it grows follow the code.    *)
(***************************************************************************)
EXTENDS Integers, Sequences, FiniteSets, Bags, TLC

\* ------------------------------------------------------------------ bounds
NPoints == 4        \* states of the level's state space
MaxConf == 5        \* configurations a level may allocate
MaxRange == 2       \* largest value of the tunable range (maxDistance_)
GoalThreshold == 1  \* radius of the goal region around the goal state
NLevels == 2        \* bundle spaces of a sequence
MaxVertices == 4    \* vertices a roadmap of QMP may hold
MaxEdges == 2       \* addBundleEdge is called on roadmaps of fewer edges
MaxAdded == 2       \* addBundleConfiguration is called on roadmaps of fewer vertices
NSparse == 5        \* vertices of the sparse graph handed to the path enumeration
MaxSparse == 10     \* vertices the disjoint sets of a sparse graph have room for
SparseDeltaMax == 2 \* the largest sparseDelta_
DenseDeltaMax == 2  \* the largest denseDelta_
Inf == 99           \* base::dInf, the infinite cost

VARIABLES
    env,      \* the problem and the tunables of the level under study
    bsg,      \* the fields of the planner object of one level
    thrown,   \* message of the ompl::Exception that left the last call, or "none"
    seq,      \* the fields of the BundleSpaceSequence and the position of solve
    sparse    \* the sparse side of a QuotientSpaceGraphSparse and its path stack

vars == <<env, bsg, thrown, seq, sparse>>

\* ------------------------------------------------------- external capabilities
Points == 0 .. (NPoints - 1)
StartState == 0
GoalState == NPoints - 1

Abs(x) == IF x < 0 THEN -x ELSE x
Min2(a, b) == IF a < b THEN a ELSE b

\* StateSpace::distance
distanceState(a, b) == Abs(a - b)

\* the obstacle layouts: free space, or one motion of two steps that the motion
\* validator rejects (motions of one step are always valid)
Walls == {{}} \cup {{{a, a + 2}} : a \in 0 .. (NPoints - 3)}

\* MotionValidator::checkMotion
checkMotionState(a, b) == {a, b} \notin env.blocked

\* OptimizationObjective::motionCost: the path length objective, or an objective
\* that charges the square of the length of a motion
motionCost(a, b) ==
    IF env.objective = "length" THEN distanceState(a, b)
    ELSE distanceState(a, b) * distanceState(a, b)
combineCosts(c1, c2) == Min2(Inf, c1 + c2)
\* a comparison that also accepts an equal cost
isCostBetterOrEqual(c1, c2) == c1 <= c2
\* a comparison that accepts every cost
isCostAny(c1, c2) == TRUE

isCostBetterThan(c1, c2) == c1 < c2

\* Goal::isSatisfied: the goal region is the states within GoalThreshold of the
\* goal state
isSatisfied(s) == distanceState(s, GoalState) <= GoalThreshold

\* StateSpace::interpolate(from, to, t) with t = maxDist / d: the point at
\* distance maxDist from `from` on the segment to `to`
interpolateState(from, to, maxDist) ==
    IF to >= from THEN from + maxDist ELSE from - maxDist

\* --------------------------------------------------------------- Configuration
NullConf == 0

NewConfiguration(s) ==
    [state |-> s, parent |-> NullConf, lineCost |-> 0, cost |-> 0,
     children |-> <<>>, index |-> 0, isStart |-> FALSE, isGoal |-> FALSE,
     representativeIndex |-> 0]

SeqToSet(s) == {s[i] : i \in 1 .. Len(s)}

\* ---------------------------------------------------------- BundleSpaceGraph
EmptyGraph ==
    [confs |-> <<>>, graphV |-> <<>>, graphE |-> EmptyBag, nn |-> <<>>,
     djParent |-> [v \in 1 .. MaxConf |-> 0], djRank |-> [v \in 1 .. MaxConf |-> 0],
     qStart |-> NullConf, qGoal |-> NullConf, vStart |-> 0, vGoal |-> 0,
     hasSolution |-> FALSE, firstRun |-> TRUE, bestCost |-> Inf,
     goalConfigurations |-> <<>>, bestGoalConfiguration |-> NullConf]

\* distance(a, b) of two configurations (geodesic metric)
distance(g, a, b) == distanceState(g.confs[a].state, g.confs[b].state)

\* new Configuration(getBundle(), state): the handle of the new record
allocConfiguration(g, s) == [g EXCEPT !.confs = Append(@, NewConfiguration(s))]

\* boost::disjoint_sets: find_set, make_set, union_set (link by rank)
RECURSIVE find_set(_, _)
find_set(parent, v) == IF parent[v] = v \/ parent[v] = 0 THEN v ELSE find_set(parent, parent[v])

uniteComponents(g, m1, m2) ==
    LET i == find_set(g.djParent, m1)
        j == find_set(g.djParent, m2)
    IN  IF i = j THEN g
        ELSE IF g.djRank[i] > g.djRank[j]
             THEN [g EXCEPT !.djParent[j] = i]
             ELSE [g EXCEPT !.djParent[i] = j,
                            !.djRank[j] = IF g.djRank[i] = g.djRank[j] THEN @ + 1 ELSE @]

sameComponent(g, m1, m2) == find_set(g.djParent, m1) = find_set(g.djParent, m2)

\* an addConfiguration that leaves the nearest-neighbour index as it was
addConfigurationUnindexed(g, q) ==
    LET m == Len(g.graphV) + 1
    IN  [g EXCEPT !.graphV = Append(@, q),
                  !.djParent[m] = m,
                  !.djRank[m] = 0,
                  !.confs[q].index = m]

\* BundleSpaceGraph::addConfiguration: vertex, make_set, nearest-neighbour index
addConfiguration(g, q) ==
    LET m == Len(g.graphV) + 1
    IN  [g EXCEPT !.graphV = Append(@, q),
                  !.djParent[m] = m,
                  !.djRank[m] = 0,
                  !.nn = Append(@, q),
                  !.confs[q].index = m]

\* an addEdge that leaves the disjoint sets as they were
addEdgeUnjoined(g, a, b) == [g EXCEPT !.graphE = @ (+) SetToBag({<<a, b>>})]

\* BundleSpaceGraph::addEdge
addEdge(g, a, b) == uniteComponents([g EXCEPT !.graphE = @ (+) SetToBag({<<a, b>>})], a, b)

\* BundleSpaceGraph::init; the result carries the message of the exception
\* it throws, if any
init(g) ==
    LET g1 == IF env.startValid
              THEN LET q == Len(g.confs) + 1
                       a == allocConfiguration(g, StartState)
                       b == [a EXCEPT !.confs[q].isStart = TRUE, !.qStart = q]
                       c == addConfiguration(b, q)
                   IN  [c EXCEPT !.vStart = c.confs[q].index]
              ELSE g
    IN  IF g1.qStart = NullConf
        THEN [g |-> g1, thrown |-> "Invalid initial states."]
        ELSE LET g2 == IF env.goalValid
                       THEN LET q == Len(g1.confs) + 1
                                a == allocConfiguration(g1, GoalState)
                            IN  [a EXCEPT !.confs[q].isGoal = TRUE, !.qGoal = q]
                       ELSE g1
             IN  IF g2.qGoal = NullConf
                 THEN [g |-> g2, thrown |-> "Invalid goal states."]
                 ELSE [g |-> g2, thrown |-> "none"]

\* NearestNeighbors::nearest: the configurations of the index closest to state x
nearestSet(g, x) ==
    {q \in SeqToSet(g.nn) :
        \A p \in SeqToSet(g.nn) :
            distanceState(g.confs[q].state, x) <= distanceState(g.confs[p].state, x)}

\* the orders in which nearestR / nearestK may list the set S: ascending
\* distance to x, ties in any order
RECURSIVE sortedLists(_, _, _)
sortedLists(g, S, x) ==
    IF S = {} THEN {<<>>}
    ELSE LET first == {q \in S : \A p \in S :
                          distanceState(g.confs[q].state, x) <= distanceState(g.confs[p].state, x)}
         IN  UNION {{<<q>> \o t : t \in sortedLists(g, S \ {q}, x)} : q \in first}

\* BundleSpaceGraph::steerTowards_Range: the state of the configuration it
\* returns, or -1 for nullptr (the geometric propagator rejects the motion)
steerTowards_Range(g, from, toState) ==
    LET d == distanceState(g.confs[from].state, toState)
        next == IF d > env.range
                THEN interpolateState(g.confs[from].state, toState, env.range)
                ELSE toState
    IN  IF checkMotionState(g.confs[from].state, next) THEN next ELSE -1

\* ------------------------------------------------- QRRTStarImpl (multilevel)
\* QRRTStarImpl::getNearestNeighbors: the set nearestK / nearestR returns.
\* card is the cardinality the formula uses; k = ceil(k_rrt * log(card)) with
\* k_rrt > 21 exceeds the size of the index for every card >= 2, and is 0 for
\* card = 1; rTerm stands for r_rrt * (log(card) / card)^(1/d), which is 0 for
\* card = 1.
getNearestNeighbors(g, xs, card, rTerm) ==
    IF env.useKNearest
    THEN IF card <= 1 THEN {} ELSE SeqToSet(g.nn)
    ELSE LET r == Min2(env.range, IF card <= 1 THEN 0 ELSE rTerm)
         IN  {q \in SeqToSet(g.nn) : distanceState(g.confs[q].state, xs) <= r}

\* the neighbour sets getNearestNeighbors may return for q_new's state xs
neighbourSets(g, xs, card) == {getNearestNeighbors(g, xs, card, rTerm) : rTerm \in 0 .. MaxRange}

\* grow, steps (1)-(3): the pairs <<q_nearest, state of q_new>> that a random
\* sample xRandom, nearest() and steerTowards_Range can produce
steerCandidates(g) ==
    UNION {{<<q, steerTowards_Range(g, q, xRandom)>> : q \in nearestSet(g, xRandom)} :
              xRandom \in Points}

\* QRRTStarImpl::updateChildCosts.  depth counts the nested calls: a tree of
\* the configurations of g is never deeper than Len(g.confs), so the cut is
\* reached only on a cyclic parent relation, on which the code does not return.
RECURSIVE updateChildCostsFrom(_, _, _, _)
updateChildCostsFrom(g, q, i, depth) ==
    IF i > Len(g.confs[q].children) \/ depth > Len(g.confs) THEN g
    ELSE LET c == g.confs[q].children[i]
             g1 == [g EXCEPT !.confs[c].cost = combineCosts(g.confs[q].cost, g.confs[c].lineCost)]
         IN  updateChildCostsFrom(updateChildCostsFrom(g1, c, 1, depth + 1), q, i + 1, depth)

\* a rewire that leaves the costs below the rewired configuration as they were
updateChildCostsSkipped(g, q) == g

updateChildCosts(g, q) == updateChildCostsFrom(g, q, 1, 1)

\* erase the first occurrence of q in the sequence s
RECURSIVE eraseFirst(_, _)
eraseFirst(s, q) ==
    IF s = <<>> THEN <<>>
    ELSE IF Head(s) = q THEN Tail(s) ELSE <<Head(s)>> \o eraseFirst(Tail(s), q)

\* QRRTStarImpl::removeFromParent
removeFromParent(g, q) ==
    LET p == g.confs[q].parent
    IN  IF p = NullConf THEN g ELSE [g EXCEPT !.confs[p].children = eraseFirst(@, q)]

\* the range test made before checkMotion in the k-nearest mode
withinRange(a, b) == ~env.useKNearest \/ distanceState(a, b) < env.range

\* grow, step (2)-(3): the loop over the neighbours that chooses the parent.
\* cp holds q_new's lineCost, cost and parent, the validNeighbor array and the
\* lineCosts vector; nearestEntry is what the loop stores in lineCosts for
\* q_nearest (cost_nearest in the multilevel variant, nn_line_cost in the
\* quotientspace variant).
RECURSIVE chooseParent(_, _, _, _, _, _)
chooseParent(g, nbh, q_nearest, xs, cp, i) ==
    IF i > Len(nbh) THEN cp
    ELSE LET q_near == nbh[i]
         IN  IF q_near = q_nearest
             THEN chooseParent(g, nbh, q_nearest, xs,
                      [cp EXCEPT !.valid = Append(@, 1),
                                 !.lineCosts = IF env.symmetric THEN Append(@, cp.nearestEntry) ELSE @],
                      i + 1)
             ELSE LET line_cost == motionCost(g.confs[q_near].state, xs)
                      new_cost == combineCosts(g.confs[q_near].cost, line_cost)
                      cp1 == [cp EXCEPT !.lineCosts = IF env.symmetric THEN Append(@, line_cost) ELSE @]
                      cp2 == IF isCostBetterThan(new_cost, cp.cost)
                             THEN IF withinRange(g.confs[q_near].state, xs)
                                     /\ checkMotionState(g.confs[q_near].state, xs)
                                  THEN [cp1 EXCEPT !.lineCost = line_cost, !.cost = new_cost,
                                                   !.parent = q_near, !.valid = Append(@, 1)]
                                  ELSE [cp1 EXCEPT !.valid = Append(@, -1)]
                             ELSE [cp1 EXCEPT !.valid = Append(@, 0)]
                  IN  chooseParent(g, nbh, q_nearest, xs, cp2, i + 1)

\* grow, step (5): the rewiring loop.  st = [g, check] threads the planner
\* object and checkForSolution.
RECURSIVE rewire(_, _, _, _, _)
rewire(st, nbh, q_new, cp, i) ==
    IF i > Len(nbh) THEN st
    ELSE LET g == st.g
             q_near == nbh[i]
         IN  IF q_near = g.confs[q_new].parent THEN rewire(st, nbh, q_new, cp, i + 1)
             ELSE LET line_cost == IF env.symmetric THEN cp.lineCosts[i]
                                   ELSE motionCost(g.confs[q_new].state, g.confs[q_near].state)
                      new_cost == combineCosts(g.confs[q_new].cost, line_cost)
                      valid == IF cp.valid[i] = 0
                               THEN withinRange(g.confs[q_near].state, g.confs[q_new].state)
                                    /\ checkMotionState(g.confs[q_new].state, g.confs[q_near].state)
                               ELSE cp.valid[i] = 1
                  IN  IF isCostBetterThan(new_cost, g.confs[q_near].cost) /\ valid
                      THEN LET g1 == removeFromParent(g, q_near)
                               g2 == [g1 EXCEPT !.confs[q_near].lineCost = line_cost,
                                                !.confs[q_near].cost = new_cost,
                                                !.confs[q_near].parent = q_new]
                               g3 == [g2 EXCEPT !.confs[q_new].children = Append(@, q_near)]
                               g4 == updateChildCosts(g3, q_near)
                           IN  rewire([g |-> g4, check |-> TRUE], nbh, q_new, cp, i + 1)
                      ELSE rewire(st, nbh, q_new, cp, i + 1)

\* a scan that takes every goal configuration without comparing its cost
RECURSIVE scanGoalsUncompared(_, _)
scanGoalsUncompared(st, k) ==
    IF k > Len(st.g.goalConfigurations) THEN st
    ELSE LET g == st.g
             qk == g.goalConfigurations[k]
         IN  scanGoalsUncompared([g |-> [g EXCEPT !.qGoal = qk, !.vGoal = g.confs[qk].index,
                                                  !.bestCost = g.confs[qk].cost],
                                  updated |-> TRUE], k + 1)

\* grow, the scan of goalConfigurations_ for a better goal
RECURSIVE scanGoals(_, _)
scanGoals(st, k) ==
    IF k > Len(st.g.goalConfigurations) THEN st
    ELSE LET g == st.g
             qk == g.goalConfigurations[k]
         IN  IF isCostBetterThan(g.confs[qk].cost, g.bestCost)
             THEN scanGoals([g |-> [g EXCEPT !.qGoal = qk, !.vGoal = g.confs[qk].index,
                                             !.bestCost = g.confs[qk].cost],
                             updated |-> TRUE], k + 1)
             ELSE scanGoals(st, k + 1)

\* grow, step (8): goal bookkeeping
goalBookkeeping(g, q_new, check) ==
    LET satisfied == isSatisfied(g.confs[q_new].state)
        g1 == IF satisfied THEN [g EXCEPT !.goalConfigurations = Append(@, q_new)] ELSE g
    IN  IF ~(check \/ satisfied) THEN g1
        ELSE LET st == IF g1.goalConfigurations # <<>> /\ g1.qGoal = NullConf
                       THEN [g |-> [g1 EXCEPT !.qGoal = q_new, !.vGoal = g1.confs[q_new].index,
                                              !.bestCost = g1.confs[q_new].cost],
                             updated |-> TRUE]
                       ELSE scanGoals([g |-> g1, updated |-> FALSE], 1)
             IN  IF st.updated THEN [st.g EXCEPT !.hasSolution = TRUE] ELSE st.g

\* QRRTStarImpl::grow after the first-run block and a successful steer: xs is
\* the state of q_new, nbh the neighbour list
QRRTStar_grow(g, q_nearest, xs, nbh) ==
    LET q_new == Len(g.confs) + 1
        ga == allocConfiguration(g, xs)
        lc == motionCost(ga.confs[q_nearest].state, xs)
        c0 == combineCosts(ga.confs[q_nearest].cost, lc)
        cp == chooseParent(ga, nbh, q_nearest, xs,
                  [lineCost |-> lc, cost |-> c0, parent |-> q_nearest,
                   valid |-> <<>>, lineCosts |-> <<>>, nearestEntry |-> c0], 1)
        gb == [ga EXCEPT !.confs[q_new].lineCost = cp.lineCost,
                         !.confs[q_new].cost = cp.cost,
                         !.confs[q_new].parent = cp.parent]
        gc == addConfiguration(gb, q_new)
        gd == [gc EXCEPT !.confs[cp.parent].children = Append(@, q_new)]
        st == rewire([g |-> gd, check |-> FALSE], nbh, q_new, cp, 1)
    IN  goalBookkeeping(st.g, q_new, st.check)

\* one call of grow() of the multilevel QRRTStarImpl (a level without base
\* space, so the path-restriction block is skipped)
GrowMultilevel ==
    /\ env.variant = "multilevel"
    /\ thrown = "none"
    /\ Len(bsg.confs) + (IF bsg.firstRun THEN 3 ELSE 1) <= MaxConf
    /\ UNCHANGED <<env, seq, sparse>>
    /\ LET r0 == IF bsg.firstRun THEN init(bsg) ELSE [g |-> bsg, thrown |-> "none"]
       IN  IF r0.thrown # "none"
           THEN bsg' = r0.g /\ thrown' = r0.thrown
           ELSE /\ thrown' = "none"
                /\ LET g0 == [r0.g EXCEPT !.firstRun = FALSE]
                   IN  \E c \in steerCandidates(g0) :
                         IF c[2] = -1 THEN bsg' = g0
                         ELSE \E S \in neighbourSets(g0, c[2], Len(g0.nn) + 1) :
                                \E nbh \in sortedLists(g0, S, c[2]) :
                                  bsg' = QRRTStar_grow(g0, c[1], c[2], nbh)


\* ---------------------------------------------- QRRTStarImpl (quotientspace)
\* grow, step (7) of the quotientspace variant: the rewiring loop.  st = [g,
\* rewired].
RECURSIVE rewireQS(_, _, _, _, _)
rewireQS(st, nbh, q_new, cp, i) ==
    IF i > Len(nbh) THEN st
    ELSE LET g == st.g
             q_near == nbh[i]
         IN  IF q_near = g.confs[q_new].parent \/ g.confs[q_near].isStart
             THEN rewireQS(st, nbh, q_new, cp, i + 1)
             ELSE LET line_cost == IF env.symmetric THEN cp.lineCosts[i]
                                   ELSE motionCost(g.confs[q_new].state, g.confs[q_near].state)
                      new_cost == combineCosts(g.confs[q_new].cost, line_cost)
                      valid == IF cp.valid[i] = 0
                               THEN withinRange(g.confs[q_near].state, g.confs[q_new].state)
                                    /\ checkMotionState(g.confs[q_near].state, g.confs[q_new].state)
                               ELSE cp.valid[i] = 1
                  IN  IF isCostBetterThan(new_cost, g.confs[q_near].cost) /\ valid
                      THEN LET g1 == removeFromParent(g, q_near)
                               g2 == addEdge(g1, g1.confs[q_new].index, g1.confs[q_near].index)
                               g3 == [g2 EXCEPT !.confs[q_near].parent = q_new,
                                                !.confs[q_near].lineCost = line_cost,
                                                !.confs[q_near].cost = new_cost]
                               g4 == [g3 EXCEPT !.confs[q_new].children = Append(@, q_near)]
                               g5 == updateChildCosts(g4, q_near)
                           IN  rewireQS([g |-> g5, rewired |-> TRUE], nbh, q_new, cp, i + 1)
                      ELSE rewireQS(st, nbh, q_new, cp, i + 1)

\* grow, the scan of goalConfigurations_ after a rewire (quotientspace variant)
RECURSIVE scanGoalsQS(_, _)
scanGoalsQS(g, i) ==
    IF i > Len(g.goalConfigurations) THEN g
    ELSE LET q == g.goalConfigurations[i]
         IN  IF isCostBetterThan(g.confs[q].cost, g.bestCost)
             THEN scanGoalsQS([g EXCEPT !.bestGoalConfiguration = q, !.bestCost = g.confs[q].cost], i + 1)
             ELSE scanGoalsQS(g, i + 1)

\* grow, the goal bookkeeping of the quotientspace variant
goalBookkeepingQS(g, q_new, q_nearest, wasRewired) ==
    LET g1 == IF ~isSatisfied(g.confs[q_new].state) THEN g
              ELSE LET a == IF g.goalConfigurations = <<>>
                            THEN LET b == addConfiguration(g, g.qGoal)
                                     c == [b EXCEPT !.vGoal = b.confs[b.qGoal].index]
                                 IN  addEdge(c, c.confs[q_nearest].index, c.vGoal)
                            ELSE g
                       d == [a EXCEPT !.goalConfigurations = Append(@, q_new)]
                       e == IF isCostBetterThan(d.confs[q_new].cost, d.bestCost)
                            THEN [d EXCEPT !.confs[d.qGoal].parent = q_new,
                                           !.bestGoalConfiguration = q_new,
                                           !.bestCost = d.confs[q_new].cost]
                            ELSE d
                   IN  [e EXCEPT !.hasSolution = TRUE]
    IN  IF wasRewired /\ g1.goalConfigurations # <<>> THEN scanGoalsQS(g1, 1) ELSE g1

\* QRRTStarImpl::grow of the quotientspace variant after the first-run block
\* and a valid motion from q_nearest to the state xs of q_new
QRRTStarQS_grow(g, q_nearest, xs, nbh) ==
    LET q_new == Len(g.confs) + 1
        ga == allocConfiguration(g, xs)
        nn_line_cost == motionCost(ga.confs[q_nearest].state, xs)
        nn_cost == combineCosts(ga.confs[q_nearest].cost, nn_line_cost)
        cp == chooseParent(ga, nbh, q_nearest, xs,
                  [lineCost |-> nn_line_cost, cost |-> nn_cost, parent |-> q_nearest,
                   valid |-> <<>>, lineCosts |-> <<>>, nearestEntry |-> nn_line_cost], 1)
        gb == addConfiguration(ga, q_new)
        gc == addEdge(gb, gb.confs[cp.parent].index, gb.confs[q_new].index)
        gd == [gc EXCEPT !.confs[q_new].lineCost = cp.lineCost,
                         !.confs[q_new].cost = cp.cost,
                         !.confs[q_new].parent = cp.parent,
                         !.confs[cp.parent].children = Append(@, q_new)]
        st == rewireQS([g |-> gd, rewired |-> FALSE], nbh, q_new, cp, 1)
    IN  goalBookkeepingQS(st.g, q_new, q_nearest, st.rewired)

\* one call of grow() of the quotientspace QRRTStarImpl
GrowQuotientspace ==
    /\ env.variant = "quotientspace"
    /\ thrown = "none"
    /\ Len(bsg.confs) + (IF bsg.firstRun THEN 3 ELSE 1) <= MaxConf
    /\ UNCHANGED <<env, seq, sparse>>
    /\ LET r0 == IF bsg.firstRun THEN init(bsg) ELSE [g |-> bsg, thrown |-> "none"]
       IN  IF r0.thrown # "none"
           THEN bsg' = r0.g /\ thrown' = r0.thrown
           ELSE /\ thrown' = "none"
                /\ LET g0 == [r0.g EXCEPT !.firstRun = FALSE]
                   IN  \E c \in steerCandidates(g0) :
                         IF c[2] = -1 THEN bsg' = g0
                         ELSE \E S \in neighbourSets(g0, c[2], Len(g0.nn)) :
                                \E nbh \in sortedLists(g0, S, c[2]) :
                                  bsg' = QRRTStarQS_grow(g0, c[1], c[2], nbh)

\* ----------------------------------------------------------------- QMPImpl
\* the number of neighbours grow() asks the index for
NearestK == 7

\* nearestK(qRandom_, 7): the lists the index may return for state x
nearestK(g, x) ==
    {SubSeq(l, 1, Min2(NearestK, Len(l))) : l \in sortedLists(g, SeqToSet(g.nn), x)}

\* a goal declaration that adds the goal vertex without an edge to it
QMP_declareGoal(g, q_neighbor) ==
    LET g1 == addConfiguration(g, g.qGoal)
    IN  [g1 EXCEPT !.vGoal = g1.confs[g.qGoal].index, !.hasSolution = TRUE]

\* grow, the branch taken when q_next satisfies the goal
QMP_connectGoal(g, q_neighbor) ==
    LET g1 == addConfiguration(g, g.qGoal)
        g2 == [g1 EXCEPT !.vGoal = g1.confs[g.qGoal].index]
        g3 == addEdge(g2, g2.confs[q_neighbor].index, g2.vGoal)
    IN  [g3 EXCEPT !.hasSolution = TRUE]

\* grow, the body of the loop over the neighbours for a neighbour with a valid
\* motion to qRandom_.  st = [g, xr, found, v_next, q_next]: xr is the state of
\* qRandom_ and found is foundFeasibleEdge.  v_next and q_next are declared in
\* the body without an initial value: on a neighbour after the first feasible
\* one they are read uninitialised, so they take any vertex and any
\* configuration.
QMP_declared(st, q_neighbor) ==
    LET g == st.g
    IN  IF ~st.found
        THEN LET from == g.confs[q_neighbor].state
                 d == distanceState(from, st.xr)
                 x1 == IF d > env.range THEN interpolateState(from, st.xr, env.range) ELSE st.xr
                 q == Len(g.confs) + 1
                 g1 == addConfiguration(allocConfiguration(g, x1), q)
             IN  {[g |-> g1, xr |-> x1, found |-> TRUE, v_next |-> g1.confs[q].index, q_next |-> q]}
        ELSE IF g.hasSolution THEN {st}
        ELSE {[st EXCEPT !.v_next = v, !.q_next = q] :
                 v \in 1 .. Len(g.graphV), q \in 1 .. Len(g.confs)}

QMP_edge(st, q_neighbor) ==
    LET g == st.g
    IN  IF ~g.hasSolution /\ st.found
        THEN LET g1 == addEdge(g, g.confs[q_neighbor].index, st.v_next)
             IN  IF isSatisfied(g1.confs[st.q_next].state)
                 THEN [st EXCEPT !.g = QMP_connectGoal(g1, q_neighbor)]
                 ELSE [st EXCEPT !.g = g1]
        ELSE st

\* grow, the loop over r_nearest_neighbors: the graphs it may leave
RECURSIVE QMP_connect(_, _, _)
QMP_connect(st, nbrs, i) ==
    IF i > Len(nbrs) THEN {st.g}
    ELSE LET q_neighbor == nbrs[i]
         IN  IF checkMotionState(st.g.confs[q_neighbor].state, st.xr)
             THEN UNION {QMP_connect(QMP_edge(s, q_neighbor), nbrs, i + 1) :
                            s \in QMP_declared(st, q_neighbor)}
             ELSE QMP_connect(st, nbrs, i + 1)

\* QMPImpl::grow after the first-run block: the graphs one call may leave.
\* qRandom_ is a uniform sample or, with the goal bias, the goal state.
QMP_grow(g) ==
    UNION {UNION {QMP_connect([g |-> g, xr |-> xRandom, found |-> FALSE,
                               v_next |-> 0, q_next |-> NullConf], nbrs, 1) :
                     nbrs \in nearestK(g, xRandom)} :
              xRandom \in Points}

\* the roadmap has room for the vertices one more grow() may add
QMP_hasRoom(g) ==
    Len(g.graphV) + (IF g.firstRun THEN 1 ELSE 0)
                  + (IF g.hasSolution THEN 1 ELSE 2) <= MaxVertices

\* QMPImpl::grow: the outcomes of one call on level g, each the level it
\* leaves and the message of the exception that left it, if any.  An exception
\* of init() leaves grow() before firstRun_ is reset.
QMPImpl_grow(g) ==
    LET r0 == IF g.firstRun THEN init(g) ELSE [g |-> g, thrown |-> "none"]
    IN  IF r0.thrown # "none" THEN {r0}
        ELSE {[g |-> h, thrown |-> "none"] : h \in QMP_grow([r0.g EXCEPT !.firstRun = FALSE])}

\* QMPImpl::getImportance: 1 / (N + 1), as numerator and denominator
getImportance(g) == [num |-> 1, den |-> Len(g.graphV) + 1]

\* one call of QMPImpl::grow()
GrowQMP ==
    /\ env.variant = "qmp"
    /\ thrown = "none"
    /\ QMP_hasRoom(bsg)
    /\ UNCHANGED <<env, seq, sparse>>
    /\ \E r \in QMPImpl_grow(bsg) : bsg' = r.g /\ thrown' = r.thrown

\* BundleSpaceGraph::addBundleConfiguration(state)
AddBundleConfiguration ==
    /\ env.variant = "qmp"
    /\ thrown = "none"
    /\ Len(bsg.graphV) < MaxAdded
    /\ \E s \in Points :
         bsg' = addConfiguration(allocConfiguration(bsg, s), Len(bsg.confs) + 1)
    /\ UNCHANGED <<env, thrown, seq, sparse>>

\* BundleSpaceGraph::addBundleEdge(a, b)
AddBundleEdge ==
    /\ env.variant = "qmp"
    /\ thrown = "none"
    /\ BagCardinality(bsg.graphE) < MaxEdges
    /\ \E a \in SeqToSet(bsg.graphV), b \in SeqToSet(bsg.graphV) :
         bsg' = addEdge(bsg, bsg.confs[a].index, bsg.confs[b].index)
    /\ UNCHANGED <<env, thrown, seq, sparse>>

\* BundleSpaceGraph::clear: BaseT::clear() resets hasSolution_ and firstRun_,
\* clearVertices() deletes the configurations of the index and empties the
\* index and the graph; the disjoint sets are left as they are
Clear ==
    /\ env.variant = "qmp"
    /\ thrown = "none"
    /\ bsg' = [EmptyGraph EXCEPT !.djParent = bsg.djParent, !.djRank = bsg.djRank]
    /\ UNCHANGED <<env, thrown, seq, sparse>>

\* ------------------------------------------------------ BundleSpaceSequence
\* the fields of a sequence of NLevels bundle spaces before solve is called;
\* level k of the code is bundleSpaces[k + 1]
NewSequence(stop) ==
    [bundleSpaces |-> [k \in 1 .. NLevels |-> EmptyGraph],
     priorityQueue |-> {},
     foundKLevelSolution |-> FALSE,
     currentBundleSpaceLevel |-> 0,
     stopAtLevel |-> stop,
     pc |-> "idle", ptc |-> FALSE, grown |-> -1,
     status |-> "none", solution |-> -1]

\* the value of seq in the specifications that run no sequence
NoSequence == [NewSequence(0) EXCEPT !.bundleSpaces = <<>>]

\* a comparison that puts the smallest importance on top of the queue
CmpSmallestOnTop(lhs, rhs) ==
    getImportance(lhs).num * getImportance(rhs).den > getImportance(rhs).num * getImportance(lhs).den

\* CmpBundleSpacePtrs: lhs->getImportance() < rhs->getImportance()
CmpBundleSpacePtrs(lhs, rhs) ==
    getImportance(lhs).num * getImportance(rhs).den < getImportance(rhs).num * getImportance(lhs).den

\* priorityQueue_.top(): a queued level that compares less than no queued level
top(s) ==
    {k \in s.priorityQueue :
        \A j \in s.priorityQueue :
            ~CmpBundleSpacePtrs(s.bundleSpaces[k + 1], s.bundleSpaces[j + 1])}

\* a loop that may stop at any time
stopsAnyTime(s) == TRUE

\* the loop of solve runs until ptc fires or currentLevel > stopAtLevel
stops(s) == s.ptc \/ s.currentBundleSpaceLevel > s.stopAtLevel

\* a level advance on every level that finds a solution
advanceOnAnySolution(s) ==
    IF s.foundKLevelSolution
    THEN s.currentBundleSpaceLevel + 1
    ELSE s.currentBundleSpaceLevel

\* step (d) of the loop: the current level after the level s.grown was grown
advance(s) ==
    IF s.foundKLevelSolution /\ s.grown = s.currentBundleSpaceLevel
    THEN s.currentBundleSpaceLevel + 1
    ELSE s.currentBundleSpaceLevel

\* solve is entered: the levels are queued
SolveEnter ==
    /\ seq.pc = "idle"
    /\ seq' = [seq EXCEPT !.priorityQueue = 0 .. (NLevels - 1), !.pc = "head"]
    /\ UNCHANGED <<env, bsg, thrown, sparse>>

\* the termination condition of the caller becomes true
PtcFires ==
    /\ seq.pc \in {"head", "grown"}
    /\ ~seq.ptc
    /\ seq' = [seq EXCEPT !.ptc = TRUE]
    /\ UNCHANGED <<env, bsg, thrown, sparse>>

\* steps (a) and (b) of the loop: pop the top level and call its grow() once;
\* an exception of grow() leaves solve
PopGrow ==
    /\ seq.pc = "head"
    /\ ~stops(seq)
    /\ \E k \in top(seq) :
         /\ QMP_hasRoom(seq.bundleSpaces[k + 1])
         /\ \E r \in QMPImpl_grow(seq.bundleSpaces[k + 1]) :
              /\ thrown' = r.thrown
              /\ seq' = [seq EXCEPT
                    !.priorityQueue = @ \ {k},
                    !.bundleSpaces[k + 1] = r.g,
                    !.grown = k,
                    !.foundKLevelSolution =
                        ~seq.bundleSpaces[k + 1].hasSolution /\ r.g.hasSolution,
                    !.pc = IF r.thrown = "none" THEN "grown" ELSE "aborted"]
    /\ UNCHANGED <<env, bsg, sparse>>

\* steps (c) and (d) of the loop: push the level back, advance the current level
PushAdvance ==
    /\ seq.pc = "grown"
    /\ seq' = [seq EXCEPT
          !.priorityQueue = @ \cup {seq.grown},
          !.currentBundleSpaceLevel = advance(seq),
          !.foundKLevelSolution = FALSE,
          !.pc = "head"]
    /\ UNCHANGED <<env, bsg, thrown, sparse>>

\* step 3: solve returns the solution path of level currentLevel - 1, if any
SolveReturn ==
    /\ seq.pc = "head"
    /\ stops(seq)
    /\ LET c == seq.currentBundleSpaceLevel
       IN  seq' = [seq EXCEPT
             !.pc = "done",
             !.status = IF c > seq.stopAtLevel THEN "EXACT_SOLUTION" ELSE "TIMEOUT",
             !.solution = IF c >= 1 /\ seq.bundleSpaces[c].hasSolution THEN c - 1 ELSE -1]
    /\ UNCHANGED <<env, bsg, thrown, sparse>>

\* ------------------------------------ QuotientSpaceGraphSparse: sparse graph
\* the sparse side of a QuotientSpaceGraphSparse after construction.  Sparse
\* vertices are 1-based (vertex m is boost vertex m-1, 0 is the index -1, also
\* for representativeIndex); graphSparseV[m] is the state of vertex m.  A path
\* of the stack is kept as its path class: the classes are numbered in the
\* order in which the stack met them.  rejectedInARow is the number of
\* candidates pushPathToStack rejected since it last accepted one in the
\* running enumeration.  nonInterfaceIndexList[m] and interfaceIndexList[m]
\* are the lists of the Configuration of sparse vertex m: sets of dense vertex
\* indices, the second one per key (a key without entry has the empty set;
\* key 0 is the index -1).  fault is "none" until a call runs into an
\* assert(false) or reads a vertex graphSparse_ does not have; the model
\* goes on as a build that survives it.  selectedPath keeps the value of the
\* code (an index from 0, -1 for none); q_random_graph is what the last
\* sampleQuotient returned.  enumerated is a history field: the vertices and
\* edges graphSparse_ had when the last enumeration of enumerateAllPaths ran.
NoSample == [from |-> "none"]

NotEnumerated == [done |-> FALSE, vertices |-> 0, edges |-> {}]

NewSparse ==
    [graphSparseV |-> <<>>, graphSparseE |-> <<>>,
     vparentSparse |-> [v \in 1 .. MaxSparse |-> 0],
     vrankSparse |-> [v \in 1 .. MaxSparse |-> 0],
     v_start_sparse |-> 0, v_goal_sparse |-> 0,
     Nold_v |-> 0, Nold_e |-> 0,
     numberOfFailedAddingPathCalls |-> 0,
     pathStack |-> <<>>, pathStackHead |-> <<>>,
     pc |-> "idle", frames |-> <<>>, rejectedInARow |-> 0,
     nonInterfaceIndexList |-> <<>>, interfaceIndexList |-> <<>>,
     fault |-> "none", selectedPath |-> -1, q_random_graph |-> NoSample,
     enumerated |-> NotEnumerated]

\* the value of sparse in the specifications without a sparse graph
NoSparse == NewSparse

\* new Configuration, add_vertex, nearestSparse_->add, make_set, index
addVertexSparse(sp, s) ==
    LET m == Len(sp.graphSparseV) + 1
    IN  [sp EXCEPT !.graphSparseV = Append(@, s),
                   !.vparentSparse[m] = m,
                   !.vrankSparse[m] = 0,
                   !.nonInterfaceIndexList = Append(@, {}),
                   !.interfaceIndexList = Append(@, [k \in 0 .. MaxSparse |-> {}])]

uniteComponentsSparse(sp, m1, m2) ==
    LET i == find_set(sp.vparentSparse, m1)
        j == find_set(sp.vparentSparse, m2)
    IN  IF i = j THEN sp
        ELSE IF sp.vrankSparse[i] > sp.vrankSparse[j]
             THEN [sp EXCEPT !.vparentSparse[j] = i]
             ELSE [sp EXCEPT !.vparentSparse[i] = j,
                             !.vrankSparse[j] = IF sp.vrankSparse[i] = sp.vrankSparse[j]
                                                 THEN @ + 1 ELSE @]

sameComponentSparse(sp, m1, m2) ==
    find_set(sp.vparentSparse, m1) = find_set(sp.vparentSparse, m2)

\* QuotientSpaceGraphSparse::addEdgeSparse
addEdgeSparse(sp, a, b) ==
    uniteComponentsSparse([sp EXCEPT !.graphSparseE = Append(@, <<a, b>>)], a, b)

\* boost::edge(a, b, graphSparse_).second
hasEdgeSparse(sp, a, b) ==
    \E k \in 1 .. Len(sp.graphSparseE) :
        {sp.graphSparseE[k][1], sp.graphSparseE[k][2]} = {a, b}

\* nearestSparse_->nearestR(x, r), as a set
sparseWithin(sp, x, r) ==
    {v \in 1 .. Len(sp.graphSparseV) : distanceState(sp.graphSparseV[v], x) <= r}

\* the orders in which nearestSparse_->nearestR may list the set S: ascending
\* distance to x, ties in any order
RECURSIVE sortedSparse(_, _, _)
sortedSparse(sp, S, x) ==
    IF S = {} THEN {<<>>}
    ELSE LET first == {v \in S : \A w \in S :
                          distanceState(sp.graphSparseV[v], x) <= distanceState(sp.graphSparseV[w], x)}
         IN  UNION {{<<v>> \o t : t \in sortedSparse(sp, S \ {v}, x)} : v \in first}

\* updateRepresentatives, the loop over graphNeighborhood: the sparse vertices
\* that may be the first visible one in the order of nearestR
firstVisible(sp, x) ==
    LET N == sparseWithin(sp, x, env.sparseDelta)
        vis(v) == checkMotionState(x, sp.graphSparseV[v])
    IN  {v \in N : vis(v) /\ \A w \in N :
            distanceState(sp.graphSparseV[w], x) < distanceState(sp.graphSparseV[v], x) => ~vis(w)}

\* updateRepresentatives, the first loop over dense_points: the dense graphs
\* it may leave, from those of G, for the dense points pts
RECURSIVE setRepresentatives(_, _, _)
setRepresentatives(G, sp, pts) ==
    IF pts = {} THEN G
    ELSE LET p == CHOOSE c \in pts : TRUE
             F == UNION {firstVisible(sp, g.confs[p].state) : g \in G}
             G1 == IF F = {} THEN G
                   ELSE {[g EXCEPT !.confs[p].representativeIndex = v] : g \in G, v \in F}
         IN  setRepresentatives(G1, sp, pts \ {p})

\* boost::adjacent_vertices(v, graph_)
adjacentVertices(g, v) ==
    {n \in 1 .. Len(g.graphV) :
        <<v, n>> \in BagToSet(g.graphE) \/ <<n, v>> \in BagToSet(g.graphE)}

\* getInterfaceNeighborhood(q): the adjacent dense vertices closer than
\* denseDelta_ whose representative is not the one of q
getInterfaceNeighborhood(g, q) ==
    {n \in adjacentVertices(g, g.confs[q].index) :
        /\ g.confs[g.graphV[n]].representativeIndex # g.confs[q].representativeIndex
        /\ distance(g, q, g.graphV[n]) < env.denseDelta}

\* getInterfaceNeighborRepresentatives(q): the representatives of these
\* vertices
getInterfaceNeighborRepresentatives(g, q) ==
    {g.confs[g.graphV[n]].representativeIndex : n \in getInterfaceNeighborhood(g, q)}

\* QuotientSpaceGraphSparse::removeFromRepresentatives(q): the index of q is
\* erased from the non-interface list of its representative; the loop over
\* the interface lists erases it from interfaceList, a copy of them (its
\* declaration is by value), which is dropped at the return
removeFromRepresentatives(g, sp, q) ==
    LET r == g.confs[q].representativeIndex
    IN  IF r = 0 THEN sp
        ELSE IF r > Len(sp.graphSparseV) THEN [sp EXCEPT !.fault = "no such vertex"]
        ELSE [sp EXCEPT !.nonInterfaceIndexList[r] = @ \ {g.confs[q].index}]

\* addToRepresentatives, the loop over interfaceRepresentatives
RECURSIVE addToInterfaces(_, _, _, _)
addToInterfaces(sp, qi, r, reps) ==
    IF reps = {} THEN sp
    ELSE LET v == CHOOSE k \in reps : TRUE
             sp1 == IF qi \in sp.interfaceIndexList[r][v]
                    THEN [sp EXCEPT !.fault = "assert"]
                    ELSE [sp EXCEPT !.interfaceIndexList[r][v] = @ \cup {qi}]
         IN  addToInterfaces(sp1, qi, r, reps \ {v})

\* QuotientSpaceGraphSparse::addToRepresentatives(q, rep, interfaceRepresentatives)
addToRepresentatives(sp, qi, r, reps) ==
    IF r > Len(sp.graphSparseV) THEN [sp EXCEPT !.fault = "no such vertex"]
    ELSE IF reps = {}
         THEN IF qi \in sp.nonInterfaceIndexList[r]
              THEN [sp EXCEPT !.fault = "assert"]
              ELSE [sp EXCEPT !.nonInterfaceIndexList[r] = @ \cup {qi}]
         ELSE addToInterfaces(sp, qi, r, reps)

\* updateRepresentatives, the removeFromRepresentatives calls of the first
\* loop over dense_points
RECURSIVE unlistRepresentatives(_, _, _)
unlistRepresentatives(g, sp, pts) ==
    IF pts = {} THEN sp
    ELSE LET p == CHOOSE c \in pts : TRUE
         IN  unlistRepresentatives(g, removeFromRepresentatives(g, sp, p), pts \ {p})

\* updateRepresentatives, the second loop over dense_points
RECURSIVE listRepresentatives(_, _, _)
listRepresentatives(g, sp, pts) ==
    IF pts = {} THEN sp
    ELSE LET p == CHOOSE c \in pts : TRUE
             r == g.confs[p].representativeIndex
             sp1 == IF r = 0 THEN sp
                    ELSE addToRepresentatives(removeFromRepresentatives(g, sp, p),
                                              g.confs[p].index, r,
                                              getInterfaceNeighborRepresentatives(g, p))
         IN  listRepresentatives(g, sp1, pts \ {p})

\* QuotientSpaceGraphSparse::updateRepresentatives(q) for q at the state x:
\* the representativeIndex of the dense points near q and the lists of their
\* representatives
updateRepresentatives(g, sp, x) ==
    LET pts == {p \in SeqToSet(g.nn) :
                   distanceState(x, g.confs[p].state) <= env.sparseDelta + env.denseDelta}
        sp1 == unlistRepresentatives(g, sp, pts)
    IN  {[g |-> g1, sp |-> listRepresentatives(g1, sp1, pts)] :
            g1 \in setRepresentatives({g}, sp, pts)}

\* addConfigurationSparse of a configuration at the state x: the states it
\* may leave; the new vertex is the last one of sp
addSparseAt(g, sp, x) == updateRepresentatives(g, addVertexSparse(sp, x), x)

\* QuotientSpaceGraphSparse::addConfigurationSparse(q)
addConfigurationSparse(g, sp, q) == addSparseAt(g, sp, g.confs[q].state)

\* a findGraphNeighbors that takes every neighbour within sparseDelta as visible
findGraphNeighborsUnfiltered(sp, x) ==
    {[graphNeighborhood |-> gn, visibleNeighborhood |-> gn] :
        gn \in sortedSparse(sp, sparseWithin(sp, x, env.sparseDelta), x)}

\* QuotientSpaceGraphSparse::findGraphNeighbors: the pairs of graphNeighborhood
\* and visibleNeighborhood it may compute
findGraphNeighbors(sp, x) ==
    LET vis(v) == checkMotionState(x, sp.graphSparseV[v])
    IN  {[graphNeighborhood |-> gn, visibleNeighborhood |-> SelectSeq(gn, vis)] :
            gn \in sortedSparse(sp, sparseWithin(sp, x, env.sparseDelta), x)}

\* QuotientSpaceGraphSparse::checkAddCoverage
checkAddCoverage(g, sp, q, vn) ==
    IF vn = <<>> THEN [fired |-> TRUE, out |-> addConfigurationSparse(g, sp, q)]
    ELSE [fired |-> FALSE, out |-> {[g |-> g, sp |-> sp]}]

\* checkAddConnectivity, the double loop: the links from the pair (i, j) on
RECURSIVE connectivityLinks(_, _, _, _, _)
connectivityLinks(sp, x, vn, i, j) ==
    IF i >= Len(vn) THEN <<>>
    ELSE IF j > Len(vn) THEN connectivityLinks(sp, x, vn, i + 1, i + 2)
    ELSE (IF /\ ~sameComponentSparse(sp, vn[i], vn[j])
             /\ checkMotionState(x, sp.graphSparseV[vn[i]])
             /\ checkMotionState(x, sp.graphSparseV[vn[j]])
          THEN <<vn[i], vn[j]>> ELSE <<>>)
         \o connectivityLinks(sp, x, vn, i, j + 1)

\* a loop over links that stops after the first link
addFirstLink(sp, v, links) ==
    IF links = <<>> THEN sp ELSE addEdgeSparse(sp, v, Head(links))

\* checkAddConnectivity, the loop over links
RECURSIVE addLinks(_, _, _)
addLinks(sp, v, links) ==
    IF links = <<>> THEN sp
    ELSE addLinks(IF ~hasEdgeSparse(sp, v, Head(links)) /\ ~sameComponentSparse(sp, Head(links), v)
                  THEN addEdgeSparse(sp, v, Head(links)) ELSE sp,
                  v, Tail(links))

\* QuotientSpaceGraphSparse::checkAddConnectivity
checkAddConnectivity(g, sp, q, vn) ==
    LET links == IF Len(vn) > 1 THEN connectivityLinks(sp, g.confs[q].state, vn, 1, 2) ELSE <<>>
    IN  IF links # <<>>
        THEN [fired |-> TRUE,
              out |-> {[g |-> r.g, sp |-> addLinks(r.sp, Len(r.sp.graphSparseV), links)] :
                          r \in addConfigurationSparse(g, sp, q)}]
        ELSE [fired |-> FALSE, out |-> {[g |-> g, sp |-> sp]}]

\* QuotientSpaceGraphSparse::checkAddInterface
checkAddInterface(g, sp, q, gn, vn) ==
    IF /\ Len(vn) > 1
       /\ gn[1] = vn[1] /\ gn[2] = vn[2]
       /\ ~hasEdgeSparse(sp, vn[1], vn[2])
    THEN IF checkMotionState(sp.graphSparseV[vn[1]], sp.graphSparseV[vn[2]])
         THEN [fired |-> TRUE, out |-> {[g |-> g, sp |-> addEdgeSparse(sp, vn[1], vn[2])]}]
         ELSE [fired |-> TRUE,
               out |-> {[g |-> r.g,
                         sp |-> addEdgeSparse(addEdgeSparse(r.sp, Len(r.sp.graphSparseV), vn[1]),
                                              Len(r.sp.graphSparseV), vn[2])] :
                           r \in addConfigurationSparse(g, sp, q)}]
    ELSE [fired |-> FALSE, out |-> {[g |-> g, sp |-> sp]}]

\* double stretchFactor_{3.}
StretchFactor == 3
\* boost::adjacent_vertices(v, graphSparse_)
adjacentSparse(sp, v) == {c \in 1 .. Len(sp.graphSparseV) : c # v /\ hasEdgeSparse(sp, v, c)}

\* QuotientSpaceGraphSparse::computeVPP
computeVPP(sp, v, vp) == {c \in adjacentSparse(sp, v) : c # vp /\ ~hasEdgeSparse(sp, c, vp)}

\* QuotientSpaceGraphSparse::computeX
computeX(sp, v, vp, vpp) ==
    {cx \in adjacentSparse(sp, vpp) :
        /\ hasEdgeSparse(sp, cx, v) /\ ~hasEdgeSparse(sp, cx, vp)
        /\ sp.interfaceIndexList[vpp][cx] # {}} \cup {vpp}

\* checkAddPath: twice s_max, the longest path through v over the nodes of Xs
twiceSMax(sp, v, vp, vpp) ==
    LET len(x) == distanceState(sp.graphSparseV[x], sp.graphSparseV[v])
                  + distanceState(sp.graphSparseV[v], sp.graphSparseV[vp])
    IN  CHOOSE m \in {len(x) : x \in computeX(sp, v, vp, vpp)} :
            \A x \in computeX(sp, v, vp, vpp) : len(x) <= m

\* the simple paths of the dense roadmap that extend the vertex path p to goal
RECURSIVE densePathsFrom(_, _, _)
densePathsFrom(g, p, goal) ==
    IF p[Len(p)] = goal THEN {p}
    ELSE UNION {densePathsFrom(g, Append(p, n), goal) :
                   n \in adjacentVertices(g, p[Len(p)]) \ SeqToSet(p)}

\* the cost of a path of states: the sum of the weights of its edges
RECURSIVE pathCost(_)
pathCost(states) ==
    IF Len(states) <= 1 THEN 0
    ELSE combineCosts(motionCost(states[1], states[2]), pathCost(Tail(states)))

\* checkAddPath, the length of dPath
RECURSIVE pathLength(_)
pathLength(states) ==
    IF Len(states) <= 1 THEN 0
    ELSE distanceState(states[1], states[2]) + pathLength(Tail(states))

\* BundleSpaceGraph::getPathDenseGraphPath: the state paths it may return, a
\* cheapest path from start to goal, or the empty path when there is none
getPathDenseGraphPath(g, start, goal) ==
    LET states(p) == [k \in 1 .. Len(p) |-> g.confs[g.graphV[p[k]]].state]
        all == IF start = goal THEN {} ELSE {states(p) : p \in densePathsFrom(g, <<start>>, goal)}
    IN  IF all = {} THEN {<<>>}
        ELSE {p \in all : \A r \in all : pathCost(p) <= pathCost(r)}

\* checkAddPath, the loop over the interface nodes q" of v for i(vpp, v): the
\* pairs of d_min and bestDPath it may end with
bestDensePaths(g, sp, q, v, vpp) ==
    LET cand == UNION {IF g.confs[q].index = qpp
                       THEN {[d_min |-> 0, best_qpp |-> qpp, bestDPath |-> <<g.confs[q].state>>]}
                       ELSE {[d_min |-> pathLength(p), best_qpp |-> qpp, bestDPath |-> p] :
                                p \in getPathDenseGraphPath(g, g.confs[q].index, qpp) \ {<<>>}} :
                      qpp \in sp.interfaceIndexList[v][vpp]}
    IN  {c \in cand : \A e \in cand : c.d_min <= e.d_min}

\* QuotientSpaceGraphSparse::getInterfaceNeighbor(q, rep): the vertices it
\* may return (it throws when there is none)
getInterfaceNeighbor(g, v, r) ==
    {n \in adjacentVertices(g, v) :
        /\ g.confs[g.graphV[n]].representativeIndex = r
        /\ distance(g, g.graphV[v], g.graphV[n]) <= env.denseDelta}

\* the states of path from position k on whose position is in keep
RECURSIVE keepStates(_, _, _)
keepStates(path, keep, k) ==
    IF k > Len(path) THEN <<>>
    ELSE (IF k \in keep THEN <<path[k]>> ELSE <<>>) \o keepStates(path, keep, k + 1)

\* PathSimplifier::reduceVertices: the paths it may leave, the end states and
\* some of the states between them, consecutive states joined by valid motions
reduceVertices(path) ==
    {r \in {keepStates(path, {1, Len(path)} \cup keep, 1) : keep \in SUBSET (1 .. Len(path))} :
        \A k \in 1 .. (Len(r) - 1) : checkMotionState(r[k], r[k + 1])}

\* addPathToSpanner, the loop that adds a guard for each state of geomPath_
RECURSIVE addGuards(_, _)
addGuards(R, states) ==
    IF states = <<>> THEN R
    ELSE addGuards(UNION {addSparseAt(r.g, r.sp, Head(states)) : r \in R}, Tail(states))

\* addPathToSpanner, the loop that links the added guards: the guards are the
\* last n vertices of sp
RECURSIVE linkGuards(_, _, _)
linkGuards(sp, first, last) ==
    IF first >= last THEN sp
    ELSE linkGuards(addEdgeSparse(sp, first, first + 1), first + 1, last)

\* QuotientSpaceGraphSparse::addPathToSpanner(dense_path, vp, vpp)
addPathToSpanner(g, sp, dense_path, vp, vpp) ==
    IF Len(dense_path) <= 1 THEN {[g |-> g, sp |-> addEdgeSparse(sp, vp, vpp)]}
    ELSE UNION {{LET last == Len(r.sp.graphSparseV)
                     first == last - Len(geomPath) + 1
                 IN  [g |-> r.g,
                      sp |-> addEdgeSparse(addEdgeSparse(linkGuards(r.sp, first, last), first, vp),
                                           last, vpp)] :
                    r \in addGuards({[g |-> g, sp |-> sp]}, geomPath)} :
                geomPath \in reduceVertices(dense_path)}

\* checkAddPath, the test of one pair v', v": the dense paths, with the
\* interface neighbours at their ends, that violate the spanner property
spannerViolations(g, sp, q, vp, vpp) ==
    LET v == g.confs[q].representativeIndex
    IN  {<<g.confs[g.graphV[na]].state>> \o b.bestDPath \o <<g.confs[g.graphV[nb]].state>> :
            b \in {c \in bestDensePaths(g, sp, q, v, vpp) :
                      twiceSMax(sp, v, vp, vpp) > 2 * StretchFactor * c.d_min},
            na \in getInterfaceNeighbor(g, g.confs[q].index, vp),
            nb \in UNION {getInterfaceNeighbor(g, c.best_qpp, vpp) :
                            c \in bestDensePaths(g, sp, q, v, vpp)}}

\* checkAddPath, the loops over n_rep and VPPs: the pairs v', v" and dense
\* paths for which s_max > stretchFactor_ * d_min
pathQualityHits(g, sp, q, n_rep) ==
    UNION {UNION {{[vp |-> vp, vpp |-> vpp, path |-> path] :
                      path \in spannerViolations(g, sp, q, vp, vpp)} :
                  vpp \in computeVPP(sp, g.confs[q].representativeIndex, vp)} :
           vp \in n_rep}

\* checkAddPath after its test of neigh
pathQualityLoop(g, sp, q, n_rep) ==
    IF pathQualityHits(g, sp, q, n_rep) = {}
    THEN [fired |-> FALSE, out |-> {[g |-> g, sp |-> sp]}]
    ELSE [fired |-> TRUE,
          out |-> UNION {addPathToSpanner(g, sp, h.path, h.vpp, h.vp) :
                            h \in pathQualityHits(g, sp, q, n_rep)}]

\* QuotientSpaceGraphSparse::checkAddPath: it returns false for a sample with
\* interface neighbours (if (!neigh.empty()) return false), and for the
\* others n_rep is empty
checkAddPath(g, sp, q) ==
    LET neigh == getInterfaceNeighborhood(g, q)
    IN  IF neigh # {} THEN [fired |-> FALSE, out |-> {[g |-> g, sp |-> sp]}]
        ELSE pathQualityLoop(g, sp, q,
                {g.confs[g.graphV[qp]].representativeIndex : qp \in neigh})

\* QuotientSpaceGraphSparse::Init: start and goal become dense vertices, the
\* start and, on a level that is not dynamic, the goal become sparse vertices
sparseInit(g, sp) ==
    LET qs == Len(g.confs) + 1
        a == allocConfiguration(g, StartState)
        b == addConfiguration([a EXCEPT !.confs[qs].isStart = TRUE, !.qStart = qs], qs)
        sp1 == [addVertexSparse(sp, StartState) EXCEPT !.v_start_sparse = 1]
        c == [b EXCEPT !.vStart = b.confs[qs].index,
                       !.confs[qs].representativeIndex = sp1.v_start_sparse]
        qg == Len(c.confs) + 1
        d == allocConfiguration(c, GoalState)
        e == addConfiguration([d EXCEPT !.confs[qg].isGoal = TRUE, !.qGoal = qg], qg)
        f == [e EXCEPT !.vGoal = e.confs[qg].index]
        sp2 == [addVertexSparse(sp1, GoalState) EXCEPT !.v_goal_sparse = Len(sp1.graphSparseV) + 1]
    IN  IF env.dynamic
        THEN [g |-> f, sp |-> sp1]
        ELSE [g |-> [f EXCEPT !.confs[qg].representativeIndex = sp2.v_goal_sparse], sp |-> sp2]

\* the dense roadmap: the new vertex is joined to the dense neighbours of ps
\* within range by validated edges
RECURSIVE connectDense(_, _, _)
connectDense(g, q, ps) ==
    IF ps = <<>> THEN g
    ELSE LET p == Head(ps)
             g1 == IF /\ p # q
                      /\ distance(g, q, p) <= env.range
                      /\ checkMotionState(g.confs[q].state, g.confs[p].state)
                   THEN addEdge(g, g.confs[q].index, g.confs[p].index)
                   ELSE g
         IN  connectDense(g1, q, Tail(ps))

\* a solution is declared when start and goal are in one component: of the
\* sparse graph, or of the dense roadmap on a dynamic level, which has no
\* sparse goal vertex
declareSolution(g, sp) ==
    IF g.hasSolution THEN g
    ELSE IF env.dynamic
         THEN [g EXCEPT !.hasSolution = sameComponent(g, g.vStart, g.vGoal)]
         ELSE [g EXCEPT !.hasSolution = sameComponentSparse(sp, sp.v_start_sparse, sp.v_goal_sparse)]

\* one grow() of a level with a sparse graph for the sample x: the dense
\* vertex, then the add-tests coverage, connectivity, interface and path
\* quality in this order up to the first that fires
growSparse(g, sp, x) ==
    LET q == Len(g.confs) + 1
        g1 == addConfiguration(allocConfiguration(g, x), q)
        g2 == connectDense(g1, q, g1.nn)
        tests(n) ==
            LET cov == checkAddCoverage(g2, sp, q, n.visibleNeighborhood)
                con == checkAddConnectivity(g2, sp, q, n.visibleNeighborhood)
                int == checkAddInterface(g2, sp, q, n.graphNeighborhood, n.visibleNeighborhood)
            IN  IF cov.fired THEN cov.out
                ELSE IF con.fired THEN con.out
                ELSE IF int.fired THEN int.out
                ELSE checkAddPath(g2, sp, q).out
    IN  {[g |-> declareSolution(r.g, r.sp), sp |-> r.sp] :
            r \in UNION {tests(n) : n \in findGraphNeighbors(sp, x)}}

\* QuotientSpaceGraphSparse::clearDynamic: the sparse graph is emptied and
\* qStart_ is its only vertex again
clearDynamic(g, sp) ==
    [addVertexSparse([sp EXCEPT !.graphSparseV = <<>>, !.graphSparseE = <<>>,
                                !.vparentSparse = [v \in 1 .. MaxSparse |-> 0],
                                !.vrankSparse = [v \in 1 .. MaxSparse |-> 0],
                                !.nonInterfaceIndexList = <<>>,
                                !.interfaceIndexList = <<>>],
                     g.confs[g.qStart].state)
       EXCEPT !.Nold_v = 0, !.Nold_e = 0]

\* the first grow() of the level: Init
SparseInit ==
    /\ env.variant = "sparse"
    /\ bsg.firstRun
    /\ LET r == sparseInit(bsg, sparse)
       IN  /\ bsg' = [r.g EXCEPT !.firstRun = FALSE]
           /\ sparse' = r.sp
    /\ UNCHANGED <<env, thrown, seq>>

\* a later grow() of the level
GrowSparse ==
    /\ env.variant = "sparse"
    /\ sparse.pc = "idle"
    /\ ~bsg.firstRun
    /\ Len(bsg.graphV) < MaxVertices
    /\ \E x \in Points : \E r \in growSparse(bsg, sparse, x) :
          /\ bsg' = r.g
          /\ sparse' = r.sp
    /\ UNCHANGED <<env, thrown, seq>>

\* QuotientSpaceGraphSparse::clear
ClearSparse ==
    /\ env.variant = "sparse"
    /\ bsg' = [EmptyGraph EXCEPT !.djParent = bsg.djParent, !.djRank = bsg.djRank]
    /\ sparse' = [NewSparse EXCEPT
                    !.numberOfFailedAddingPathCalls = sparse.numberOfFailedAddingPathCalls]
    /\ UNCHANGED <<env, thrown, seq>>

\* ------------------------------------- QuotientSpaceGraphSparse: path stack
\* unsigned Nhead{7}
Nhead == 7
\* the number of failed pushPathToStack calls printAllPathsUtil tolerates
MaxFailedCalls == 10

\* boost::out_edges(u, graphSparse_): the other end points, in edge order
outNeighbors(sp, u) ==
    LET incident(e) == e[1] = u \/ e[2] = u
        es == SelectSeq(sp.graphSparseE, incident)
    IN  [k \in 1 .. Len(es) |-> IF es[k][1] = u THEN es[k][2] ELSE es[k][1]]

\* PathVisibilityChecker::IsPathVisible on two paths, given their classes
IsPathVisible(c1, c2) == c1 = c2

\* a comparison of the candidate with the last path of the stack only
isEqualToLastStacked(stack, c) == stack # <<>> /\ IsPathVisible(c, stack[Len(stack)])

\* pushPathToStack, the loop over pathStack_: the candidate is visible from a
\* path of the stack
isEqualToStacked(stack, c) == \E k \in 1 .. Len(stack) : IsPathVisible(c, stack[k])

\* pushPathToStack: the candidate is rejected (failed call)
rejectPath(sp) ==
    [sp EXCEPT !.numberOfFailedAddingPathCalls = @ + 1, !.rejectedInARow = @ + 1]

\* QuotientSpaceGraphSparse::pushPathToStack: the states it may leave.
\* projectable and valid are the answers of isProjectable and CheckValidity
\* for the simplified path (not asked on a dynamic level), c is its class: a
\* class of the stack or the next new one.
pushPathToStack(sp) ==
    {IF ~projectable THEN rejectPath(sp)
     ELSE IF ~valid THEN rejectPath(sp)
     ELSE IF sp.pathStack = <<>>
          THEN [sp EXCEPT !.pathStack = Append(@, c), !.rejectedInARow = 0]
     ELSE IF isEqualToStacked(sp.pathStack, c) THEN rejectPath(sp)
     ELSE [sp EXCEPT !.pathStack = Append(@, c), !.rejectedInARow = 0] :
        projectable \in (IF ~env.dynamic /\ env.hasParent THEN BOOLEAN ELSE {TRUE}),
        valid \in (IF ~env.dynamic THEN BOOLEAN ELSE {TRUE}),
        c \in 1 .. (Len(sp.pathStack) + 1)}

\* printAllPathsUtil returns at once: enough paths or too many failed calls
enoughPaths(sp) == Len(sp.pathStack) > Nhead
utilReturnsAtOnce(sp) ==
    enoughPaths(sp) \/ sp.numberOfFailedAddingPathCalls > MaxFailedCalls

\* the vertices marked visited: those of the calls in progress
visited(sp) == {sp.frames[k].u : k \in 1 .. Len(sp.frames)}

\* the return of printAllPathsUtil to the loop of its caller: the caller
\* breaks out of its loop when the stack holds enough paths
returnToCaller(sp) ==
    IF sp.frames # <<>> /\ enoughPaths(sp)
    THEN [sp EXCEPT !.frames[Len(sp.frames)].i = Len(outNeighbors(sp, sp.frames[Len(sp.frames)].u)) + 1]
    ELSE sp

\* printAllPathsUtil(u, d, ...) called with the calls of sp.frames in progress:
\* the states after the call returned or, for an inner vertex, entered its loop
callUtil(sp, u) ==
    IF utilReturnsAtOnce(sp) THEN {returnToCaller(sp)}
    ELSE IF u = sp.v_goal_sparse
         THEN {returnToCaller(r) : r \in pushPathToStack(sp)}
         ELSE {[sp EXCEPT !.frames = Append(@, [u |-> u, i |-> 1])]}

\* one step of the call of printAllPathsUtil on top of sp.frames: the next
\* out-edge of its loop, or its return
stepUtil(sp) ==
    LET n == Len(sp.frames)
        f == sp.frames[n]
        out == outNeighbors(sp, f.u)
    IN  IF f.i > Len(out)
        THEN {returnToCaller([sp EXCEPT !.frames = SubSeq(@, 1, n - 1)])}
        ELSE LET vnext == out[f.i]
                 sp1 == [sp EXCEPT !.frames[n].i = f.i + 1]
             IN  IF vnext \in visited(sp) THEN {sp1} ELSE callUtil(sp1, vnext)

\* the sparse graph without the edges between v1 and v2
removeEdge(sp, v1, v2) ==
    LET keep(e) == {e[1], e[2]} # {v1, v2}
    IN  [sp EXCEPT !.graphSparseE = SelectSeq(@, keep)]

\* a removal of the edge e that does not look for a common neighbour
removeEdgeUnchecked(sp, e) == removeEdge(sp, e[1], e[2])

\* removeEdgeIfReductionLoop(e): the edge is removed when the checker finds
\* its triangle with a common neighbour v3 reducible
removeEdgeIfReductionLoop(sp, e) ==
    LET v1 == e[1]
        v2 == e[2]
        n1 == {outNeighbors(sp, v1)[k] : k \in 1 .. Len(outNeighbors(sp, v1))} \ {v2}
        n2 == {outNeighbors(sp, v2)[k] : k \in 1 .. Len(outNeighbors(sp, v2))} \ {v1}
    IN  IF \E v3 \in n1 \cap n2 : {v1, v2, v3} \in env.reducible
        THEN removeEdge(sp, v1, v2)
        ELSE sp

\* removeReducibleLoops: k random edges are tried; the graphs it may leave
RECURSIVE removeReducibleLoops(_, _)
removeReducibleLoops(S, k) ==
    IF k = 0 THEN S
    ELSE removeReducibleLoops(
            UNION {{removeEdgeIfReductionLoop(sp, sp.graphSparseE[j]) :
                       j \in 1 .. Len(sp.graphSparseE)} : sp \in S}, k - 1)

\* hasSparseGraphChanged
hasSparseGraphChanged(sp) ==
    Len(sp.graphSparseV) > sp.Nold_v \/ Len(sp.graphSparseE) > sp.Nold_e

\* the edges of graphSparse_ as a set of unordered pairs
edgesSparse(sp) == {{sp.graphSparseE[i][1], sp.graphSparseE[i][2]} : i \in 1 .. Len(sp.graphSparseE)}

\* the graph the enumeration that starts on sp goes through
enumeratedGraph(sp) ==
    [sp EXCEPT !.enumerated = [done |-> TRUE, vertices |-> Len(sp.graphSparseV),
                               edges |-> edgesSparse(sp)]]

\* enumerateAllPaths, the last block: pathStackHead_ is the first Nhead paths
setPathStackHead(sp) ==
    [sp EXCEPT !.pathStackHead = SubSeq(sp.pathStack, 1, Min2(Nhead, Len(sp.pathStack))),
               !.pc = "idle"]

\* enumerateAllPaths of a non-dynamic level, up to the first call of
\* printAllPathsUtil
EnumerateAllPaths ==
    /\ ~env.dynamic
    /\ sparse.pc = "idle"
    /\ IF ~bsg.hasSolution \/ ~hasSparseGraphChanged(sparse)
       THEN sparse' = sparse
       ELSE \E sp \in removeReducibleLoops(
                        {[sparse EXCEPT !.Nold_v = Len(sparse.graphSparseV),
                                        !.Nold_e = Len(sparse.graphSparseE)]},
                        Len(sparse.graphSparseE)) :
              IF Len(sp.graphSparseV) <= 0 THEN sparse' = enumeratedGraph(sp)
              ELSE sparse' \in callUtil([enumeratedGraph(sp) EXCEPT
                                                   !.numberOfFailedAddingPathCalls = 0,
                                                   !.rejectedInARow = 0,
                                                   !.pc = "search"],
                                        sp.v_start_sparse)
    /\ UNCHANGED <<env, bsg, thrown, seq>>

\* the sparse vertices reached from the vertices of S along edges
RECURSIVE reachSparse(_, _)
reachSparse(sp, S) ==
    LET T == S \cup {v \in 1 .. Len(sp.graphSparseV) : \E u \in S : hasEdgeSparse(sp, u, v)}
    IN  IF T = S THEN S ELSE reachSparse(sp, T)

\* getPathSparse(start, goal) returns a path: prev[goal] # goal
getPathSparse(sp, start, goal) == goal # start /\ goal \in reachSparse(sp, {start})

\* nearest(q) on a dynamic level: nearestSparse_->nearest
nearestSparse(sp, x) ==
    {v \in 1 .. Len(sp.graphSparseV) : \A w \in 1 .. Len(sp.graphSparseV) :
        distanceState(sp.graphSparseV[v], x) <= distanceState(sp.graphSparseV[w], x)}

\* enumerateAllPaths of a dynamic level: the shortest sparse path towards the
\* goal is pushed, the sparse graph is cleared when the stack took it, and
\* pathStackHead_ is refreshed
EnumerateAllPathsDynamic ==
    /\ env.dynamic
    /\ sparse.pc = "idle"
    /\ IF ~bsg.hasSolution THEN sparse' = sparse
       ELSE \E vn \in nearestSparse(sparse, bsg.confs[bsg.qGoal].state) :
              IF ~getPathSparse(sparse, sparse.v_start_sparse, vn) THEN sparse' = sparse
              ELSE \E r \in pushPathToStack(sparse) :
                     sparse' = setPathStackHead(IF Len(r.pathStack) > Len(sparse.pathStack)
                                                THEN clearDynamic(bsg, r) ELSE r)
    /\ UNCHANGED <<env, bsg, thrown, seq>>

\* one step of the depth-first search of printAllPathsUtil
PrintAllPathsUtil ==
    /\ sparse.pc = "search"
    /\ sparse.frames # <<>>
    /\ sparse' \in stepUtil(sparse)
    /\ UNCHANGED <<env, bsg, thrown, seq>>

\* enumerateAllPaths after printAllPathsUtil returned
EnumerateAllPathsHead ==
    /\ sparse.pc = "search"
    /\ sparse.frames = <<>>
    /\ sparse' = setPathStackHead(sparse)
    /\ UNCHANGED <<env, bsg, thrown, seq>>

\* the most vertices of a sparse graph built up by single calls
MaxGuards == 4

\* the most edges of a sparse graph built up by single calls
MaxLinks == 4

\* a call of addConfigurationSparse for a configuration at the state x
AddConfigurationSparse ==
    /\ env.variant = "spanner"
    /\ sparse.pc = "idle"
    /\ Len(sparse.graphSparseV) < MaxGuards
    /\ \E r \in addSparseAt(bsg, sparse, Len(sparse.graphSparseV) % NPoints) :
          /\ bsg' = r.g
          /\ sparse' = r.sp
    /\ UNCHANGED <<env, thrown, seq>>

\* a call of addEdgeSparse(a, b) for two vertices without an edge, as
\* checkAddConnectivity and checkAddInterface make it
AddEdgeSparse ==
    /\ env.variant = "spanner"
    /\ sparse.pc = "idle"
    /\ Len(sparse.graphSparseE) < MaxLinks
    /\ \E a, b \in 1 .. Len(sparse.graphSparseV) :
          /\ a < b
          /\ ~hasEdgeSparse(sparse, a, b)
          /\ sparse' = addEdgeSparse(sparse, a, b)
    /\ UNCHANGED <<env, bsg, thrown, seq>>

\* the most states a path of the stack has after pushPathToStack smoothed it
MaxStates == 3

\* what 0 - 1 gives in the unsigned arithmetic of sampleQuotient: 2^32 - 1 in
\* the code, here the largest integer of the model checker, which like it is
\* above every length of a path
UIntWrapped == 2147483647

\* sampleQuotient, edge sampling: the positions of s1 and s2 in states for
\* the draw k, as the unsigned arithmetic of the code gives them (k - 1 wraps
\* around for k = 0)
waypoints(N, k) ==
    [s1 |-> IF k < N - 1 THEN k ELSE IF k >= 1 THEN k - 1 ELSE UIntWrapped,
     s2 |-> IF k < N - 1 THEN k + 1 ELSE k]

\* QuotientSpaceGraphSparse::sampleQuotient with selectedPath = sel on a path
\* of N states and the draw k: the message of the exception that leaves the
\* call ("none" when it returns) and the sample
sampleQuotient(sp, sel, N, k) ==
    IF ~env.childDynamic /\ Len(sp.pathStack) > 0
    THEN IF sel >= 0 /\ sel < Len(sp.pathStack)
         THEN IF sel >= Len(sp.pathStackHead)
              THEN [thrown |-> "vector::at", sample |-> NoSample]
              ELSE IF waypoints(N, k).s1 >= N \/ waypoints(N, k).s2 >= N
                   THEN [thrown |-> "vector::at", sample |-> NoSample]
                   ELSE [thrown |-> "none",
                         sample |-> [from |-> "path", path |-> sp.pathStackHead[sel + 1],
                                     s1 |-> waypoints(N, k).s1, s2 |-> waypoints(N, k).s2]]
         ELSE [thrown |-> "Unknown selected path", sample |-> NoSample]
    ELSE [thrown |-> "none", sample |-> [from |-> "graph"]]

\* a sampleQuotient call of the level above, between two calls of
\* enumerateAllPaths; the selected path has at least its two end states
SampleQuotient ==
    /\ env.variant = "sampling"
    /\ sparse.pc = "idle"
    /\ \E N \in 2 .. MaxStates : \E k \in 0 .. (N - 1) :
          LET r == sampleQuotient(sparse, sparse.selectedPath, N, k)
          IN  /\ thrown' = r.thrown
              /\ sparse' = [sparse EXCEPT !.q_random_graph = r.sample]
    /\ UNCHANGED <<env, bsg, seq>>

\* ------------------------------------------------------------ specifications
RRTEnvs(variants) ==
    [variant : variants, useKNearest : BOOLEAN, symmetric : BOOLEAN,
     range : 1 .. MaxRange, blocked : Walls, objective : {"length", "work"},
     startValid : {TRUE}, goalValid : {TRUE}]

InitRRT ==
    /\ env \in RRTEnvs({"multilevel"})
    /\ bsg = EmptyGraph
    /\ thrown = "none"
    /\ seq = NoSequence
    /\ sparse = NoSparse

NextRRT == GrowMultilevel

SpecRRT == InitRRT /\ [][NextRRT]_vars

InitRRTStar ==
    /\ env \in RRTEnvs({"multilevel", "quotientspace"})
    /\ bsg = EmptyGraph
    /\ thrown = "none"
    /\ seq = NoSequence
    /\ sparse = NoSparse

NextRRTStar == GrowMultilevel \/ GrowQuotientspace

SpecRRTStar == InitRRTStar /\ [][NextRRTStar]_vars

GraphEnvs ==
    [variant : {"qmp"}, useKNearest : {FALSE}, symmetric : {FALSE},
     range : 1 .. MaxRange, blocked : Walls, objective : {"length"},
     startValid : BOOLEAN, goalValid : BOOLEAN]

InitGraph ==
    /\ env \in GraphEnvs
    /\ bsg = EmptyGraph
    /\ thrown = "none"
    /\ seq = NoSequence
    /\ sparse = NoSparse

NextGraph == GrowQMP \/ AddBundleConfiguration \/ AddBundleEdge \/ Clear

SpecGraph == InitGraph /\ [][NextGraph]_vars

NextQMP == GrowQMP \/ Clear

SpecQMP == InitGraph /\ [][NextQMP]_vars

InitSequence ==
    /\ env \in GraphEnvs
    /\ bsg = EmptyGraph
    /\ thrown = "none"
    /\ \E stop \in 0 .. (NLevels - 1) : seq = NewSequence(stop)
    /\ sparse = NoSparse

NextSequence == SolveEnter \/ PtcFires \/ PopGrow \/ PushAdvance \/ SolveReturn

SpecSequence == InitSequence /\ [][NextSequence]_vars

\* the complete graph on the vertices 1 .. n: the edges from <<a, b>> on, in
\* lexicographic order
RECURSIVE completeSparse(_, _, _, _)
completeSparse(sp, a, b, n) ==
    IF a >= n THEN sp
    ELSE IF b > n THEN completeSparse(sp, a + 1, a + 2, n)
    ELSE completeSparse(addEdgeSparse(sp, a, b), a, b + 1, n)

\* n sparse vertices: the start, the goal, then vertices at the other states
RECURSIVE sparseVertices(_, _)
sparseVertices(sp, n) ==
    IF n = 0 THEN sp
    ELSE addVertexSparse(sparseVertices(sp, n - 1),
                         IF n = 1 THEN StartState ELSE IF n = 2 THEN GoalState
                         ELSE (n - 2) % NPoints)

\* the sparse graphs handed to the enumeration: vertex 1 is the start, vertex
\* 2 the goal (as Init adds them), every two vertices joined by an edge
SparseInputs ==
    {completeSparse([sparseVertices(NewSparse, n) EXCEPT !.v_start_sparse = 1,
                                                         !.v_goal_sparse = 2], 1, 2, n) :
        n \in 2 .. NSparse}

PathEnvs ==
    [variant : {"paths"}, dynamic : {FALSE}, hasParent : BOOLEAN,
     reducible : {{}, {{1, 2, 3}}},
     useKNearest : {FALSE}, symmetric : {FALSE}, range : {MaxRange}, blocked : {{}},
     objective : {"length"}, startValid : {TRUE}, goalValid : {TRUE}]

\* the dense roadmap of a level whose first grow() joined start and goal
SolvedRoadmap ==
    LET g == init(EmptyGraph).g
        g1 == addConfiguration(g, g.qGoal)
        g2 == addEdge([g1 EXCEPT !.vGoal = g1.confs[g.qGoal].index], g1.vStart,
                      g1.confs[g.qGoal].index)
    IN  [g2 EXCEPT !.firstRun = FALSE, !.hasSolution = TRUE]

InitPaths ==
    /\ env \in PathEnvs
    /\ bsg \in {SolvedRoadmap, [init(EmptyGraph).g EXCEPT !.firstRun = FALSE]}
    /\ thrown = "none"
    /\ seq = NoSequence
    /\ sparse \in SparseInputs

NextPaths == EnumerateAllPaths \/ PrintAllPathsUtil \/ EnumerateAllPathsHead

SpecPaths == InitPaths /\ [][NextPaths]_vars

\* the triangles of sparse vertices the visibility checker may find reducible
Triangles == {t \in SUBSET (1 .. MaxGuards) : Cardinality(t) = 3}

\* the problems of a non-dynamic level whose sparse graph is built up by
\* addConfigurationSparse and addEdgeSparse and whose paths are enumerated: no
\* triangle of the sparse graph is reducible
SpannerEnvs ==
    [variant : {"spanner"}, dynamic : {FALSE}, hasParent : {FALSE},
     reducible : {Triangles},
     sparseDelta : {1}, denseDelta : {1},
     useKNearest : {FALSE}, symmetric : {FALSE}, range : {MaxRange}, blocked : {{}},
     objective : {"length"}, startValid : {TRUE}, goalValid : {TRUE}]

\* the level after Init and a grow() that joined start and goal in the dense
\* roadmap: the sparse graph holds the start and the goal
InitSpanner ==
    /\ env \in SpannerEnvs
    /\ bsg = SolvedRoadmap
    /\ thrown = "none"
    /\ seq = NoSequence
    /\ sparse = [sparseVertices(NewSparse, 2) EXCEPT !.v_start_sparse = 1, !.v_goal_sparse = 2]

NextSpanner ==
    \/ AddConfigurationSparse \/ AddEdgeSparse
    \/ EnumerateAllPaths \/ PrintAllPathsUtil \/ EnumerateAllPathsHead

SpecSpanner == InitSpanner /\ [][NextSpanner]_vars

\* the levels whose path stack the level above samples from: the level above
\* is dynamic or not
SamplingEnvs ==
    [variant : {"sampling"}, dynamic : {FALSE}, childDynamic : BOOLEAN, hasParent : {FALSE},
     reducible : {{}},
     useKNearest : {FALSE}, symmetric : {FALSE}, range : {MaxRange}, blocked : {{}},
     objective : {"length"}, startValid : {TRUE}, goalValid : {TRUE}]

InitSampling ==
    /\ env \in SamplingEnvs
    /\ bsg \in {SolvedRoadmap, [init(EmptyGraph).g EXCEPT !.firstRun = FALSE]}
    /\ thrown = "none"
    /\ seq = NoSequence
    /\ sparse \in SparseInputs

NextSampling ==
    EnumerateAllPaths \/ PrintAllPathsUtil \/ EnumerateAllPathsHead \/ SampleQuotient

SpecSampling == InitSampling /\ [][NextSampling]_vars

\* the problems of a level with a sparse graph: dynamic or not, two radii of
\* the sparse neighbourhood, free space or one blocked motion
SparseEnvs ==
    [variant : {"sparse"}, dynamic : BOOLEAN, hasParent : {FALSE}, reducible : {{}},
     sparseDelta : 1 .. SparseDeltaMax, denseDelta : 1 .. DenseDeltaMax,
     useKNearest : {FALSE}, symmetric : {FALSE}, range : {MaxRange}, blocked : Walls,
     objective : {"length"}, startValid : {TRUE}, goalValid : {TRUE}]

InitSparse ==
    /\ env \in SparseEnvs
    /\ bsg = EmptyGraph
    /\ thrown = "none"
    /\ seq = NoSequence
    /\ sparse = NewSparse

NextSparse == SparseInit \/ GrowSparse \/ EnumerateAllPathsDynamic \/ ClearSparse

SpecSparse == InitSparse /\ [][NextSparse]_vars

\* ------------------------------------------------------------------ claims
TreeNodes == SeqToSet(bsg.nn)

\* C1: in the multilevel QRRT*, after every completed grow(), every
\* configuration of the tree that has a parent has cost equal to
\* combineCosts(parent.cost, lineCost) and is listed in its parent's children.
C1_TreeCostAndChildren ==
    \A c \in TreeNodes :
        LET p == bsg.confs[c].parent
        IN  p # NullConf =>
              /\ bsg.confs[c].cost = combineCosts(bsg.confs[p].cost, bsg.confs[c].lineCost)
              /\ c \in SeqToSet(bsg.confs[p].children)

\* a configuration the tree grew that was rewired to a parent allocated after it
rewired(c) == ~bsg.confs[c].isGoal /\ bsg.confs[c].parent > c

\* a rewired configuration had a child whose cost the recursive update changed
C1_Witness ==
    \E c \in TreeNodes :
        /\ rewired(c)
        /\ bsg.confs[c].children # <<>>
        /\ \E k \in SeqToSet(bsg.confs[c].children) : ~rewired(k) /\ k > c

\* the configuration reached from c after n steps along the parent pointers
RECURSIVE ancestor(_, _)
ancestor(c, n) ==
    IF n = 0 \/ c = NullConf THEN c ELSE ancestor(bsg.confs[c].parent, n - 1)

\* C2: the parent relation of the multilevel QRRT* is an in-tree rooted at
\* qStart: from every configuration of the tree the parent pointers lead to
\* qStart, and qStart is the only configuration of the tree without a parent.
C2_InTreeRootedAtStart ==
    \A c \in TreeNodes :
        /\ \E n \in 0 .. Len(bsg.confs) : ancestor(c, n) = bsg.qStart
        /\ (bsg.confs[c].parent = NullConf) <=> (c = bsg.qStart)

\* a rewired configuration two or more edges below the start
C2_Witness ==
    \E c \in TreeNodes :
        /\ rewired(c)
        /\ bsg.confs[c].parent # bsg.qStart
        /\ \E n \in 2 .. Len(bsg.confs) : ancestor(c, n) = bsg.qStart

\* C3: once a level has a solution, bestCost never gets worse from one grow()
\* to the next.
C3_BestCostMonotone ==
    [][(bsg.hasSolution /\ bsg'.hasSolution) => ~isCostBetterThan(bsg.bestCost, bsg'.bestCost)]_vars

\* the best cost is the cost of a goal configuration that was lowered after
\* the configuration was found, by a rewire of its parent
C3_Witness ==
    /\ bsg.hasSolution
    /\ \E k \in 1 .. Len(bsg.goalConfigurations) :
          LET q == bsg.goalConfigurations[k]
              p == bsg.confs[q].parent
          IN  /\ bsg.bestCost = bsg.confs[q].cost
              /\ p # NullConf /\ rewired(p) /\ bsg.confs[p].parent > q

\* the vertices reached from the set S in at most n edges of graph g
RECURSIVE reach(_, _, _)
reach(g, S, n) ==
    IF n = 0 THEN S
    ELSE reach(g, S \cup {e[2] : e \in {e \in BagToSet(g.graphE) : e[1] \in S}}
                    \cup {e[1] : e \in {e \in BagToSet(g.graphE) : e[2] \in S}}, n - 1)

\* a path from vertex a to vertex b exists in graph g
pathExists(g, a, b) == b \in reach(g, {a}, Len(g.graphV))

Vertices == 1 .. Len(bsg.graphV)

\* C4: after any sequence of init, grow, addConfiguration and clear the
\* nearest-neighbour index and the vertices of the roadmap graph hold the same
\* configurations: same size, same elements, each configuration once.
C4_IndexEqualsGraph ==
    /\ Len(bsg.nn) = Len(bsg.graphV)
    /\ SeqToSet(bsg.nn) = SeqToSet(bsg.graphV)
    /\ Cardinality(SeqToSet(bsg.nn)) = Len(bsg.nn)

\* a roadmap grown again after a clear (the disjoint sets still hold an
\* element of the cleared roadmap), with the goal configuration added
C4_Witness ==
    /\ bsg.hasSolution
    /\ Len(bsg.nn) >= 3
    /\ \E k \in (Len(bsg.graphV) + 1) .. MaxConf : bsg.djParent[k] # 0

\* C5: sameComponent(a, b) is true exactly when a path from a to b exists in
\* the roadmap graph (so a vertex without edges is in a component of its own
\* and the end points of every edge are in one component).
C5_ComponentsArePaths ==
    \A a \in Vertices : \A b \in Vertices :
        sameComponent(bsg, a, b) <=> pathExists(bsg, a, b)

\* a roadmap with a component of three vertices, two of them joined only
\* through the third, and a vertex alone
C5_Witness ==
    \E a \in Vertices : \E b \in Vertices : \E c \in Vertices :
        /\ a # b /\ b # c /\ a # c
        /\ sameComponent(bsg, a, b) /\ sameComponent(bsg, b, c)
        /\ <<a, c>> \notin BagToSet(bsg.graphE) /\ <<c, a>> \notin BagToSet(bsg.graphE)
        /\ \E e \in Vertices : \A f \in Vertices \ {e} : ~sameComponent(bsg, e, f)

\* C10: a grow() of QMP that sets hasSolution leaves the start vertex and the
\* goal vertex in the same component, with a start-to-goal path in the graph.
C10_SolutionMeansConnected ==
    [][(~bsg.hasSolution /\ bsg'.hasSolution) =>
          /\ sameComponent(bsg', bsg'.vStart, bsg'.vGoal)
          /\ pathExists(bsg', bsg'.vStart, bsg'.vGoal)]_vars

\* QMP has a solution whose goal vertex is two or more edges from the start
C10_Witness ==
    /\ bsg.hasSolution
    /\ env.variant = "qmp"
    /\ bsg.vGoal \notin reach(bsg, {bsg.vStart}, 1)
    /\ pathExists(bsg, bsg.vStart, bsg.vGoal)

Levels == 0 .. (NLevels - 1)

\* level k of the sequence in state s
level(s, k) == s.bundleSpaces[k + 1]

\* the importance of level a is at least that of level b
atLeastAsImportant(a, b) ==
    getImportance(a).num * getImportance(b).den >= getImportance(b).num * getImportance(a).den

\* C6: in every iteration of solve the level grown is a queued level whose
\* importance is maximal among the queued levels, grow() is called once, on
\* that level only, and the level is pushed back: at the head of the loop the
\* queue holds the same levels before and after the iteration.
C6_GrowsTopLevelOnce ==
    [][/\ (seq.pc = "head" /\ seq'.pc \in {"grown", "aborted"}) =>
            LET k == seq'.grown
            IN  /\ k \in seq.priorityQueue
                /\ \A j \in seq.priorityQueue : atLeastAsImportant(level(seq, k), level(seq, j))
                /\ seq'.priorityQueue = seq.priorityQueue \ {k}
                /\ \A j \in Levels \ {k} : level(seq', j) = level(seq, j)
       /\ (seq.pc # "head") => seq'.bundleSpaces = seq.bundleSpaces
       /\ (seq.pc = "grown" /\ seq'.pc = "head") =>
            seq'.priorityQueue = seq.priorityQueue \cup {seq.grown}
       /\ (seq.pc = "head" /\ seq'.pc = "head") => seq'.priorityQueue = seq.priorityQueue
       /\ (seq'.pc = "head") => seq'.priorityQueue = Levels]_vars

\* the level just grown had fewer vertices than another queued level before
\* its grow(), and still has after it
C6_Witness ==
    /\ seq.pc = "grown"
    /\ Len(level(seq, seq.grown).graphV) >= 2
    /\ \E j \in seq.priorityQueue :
         Len(level(seq, j).graphV) > Len(level(seq, seq.grown).graphV)

\* C7: currentLevel never decreases; it increases, by exactly one, in exactly
\* the iterations whose grown level is the current level and went from no
\* solution to hasSolution in that grow; every level below currentLevel has a
\* solution.
C7_LevelAdvance ==
    [][LET c == seq.currentBundleSpaceLevel
           c1 == seq'.currentBundleSpaceLevel
       IN  /\ c1 >= c
           /\ (seq.pc = "head" /\ seq'.pc = "grown") =>
                (seq'.foundKLevelSolution <=>
                    (~level(seq, seq'.grown).hasSolution /\ level(seq', seq'.grown).hasSolution))
           /\ (c1 # c) <=> (/\ seq.pc = "grown" /\ seq'.pc = "head"
                            /\ seq.grown = c /\ seq.foundKLevelSolution)
           /\ (c1 # c) => (c1 = c + 1)
           /\ \A k \in 0 .. (c1 - 1) : level(seq', k).hasSolution]_vars

\* the current level advanced past two levels, each solved while current
C7_Witness ==
    /\ seq.pc = "head"
    /\ seq.currentBundleSpaceLevel >= 2
    /\ level(seq, 0).hasSolution /\ level(seq, 1).hasSolution

\* C8: solve returns only from the head of the loop (no grow() is cut short:
\* every level is back in the queue), and only when the termination condition
\* has fired or currentLevel > stopAtLevel; it returns the solution path of
\* level currentLevel - 1 if that level has one; a return caused by the
\* termination condition alone is reported by the status TIMEOUT, with no
\* exception.
C8_SolveExit ==
    [][(seq'.pc = "done") =>
          LET c == seq'.currentBundleSpaceLevel
          IN  /\ seq.pc \in {"head", "done"}
              /\ seq'.priorityQueue = Levels
              /\ seq'.bundleSpaces = seq.bundleSpaces
              /\ seq'.ptc \/ c > seq'.stopAtLevel
              /\ seq'.solution = (IF c >= 1 /\ level(seq', c - 1).hasSolution THEN c - 1 ELSE -1)
              /\ (c <= seq'.stopAtLevel) => (seq'.status = "TIMEOUT" /\ thrown' = "none")
              /\ (c > seq'.stopAtLevel) => (seq'.status = "EXACT_SOLUTION" /\ thrown' = "none")]_vars

\* solve returned on the termination condition with the stop level unsolved,
\* and gave the solution path of the solved level below the current one
C8_Witness ==
    /\ seq.pc = "done"
    /\ seq.ptc
    /\ seq.currentBundleSpaceLevel = 1
    /\ seq.stopAtLevel >= 1
    /\ seq.status = "TIMEOUT"
    /\ seq.solution = 0

\* C9: when the problem has no valid start state and the termination
\* condition has not fired, a solve that ended reports the status
\* INVALID_START, no exception has left it, and no level holds a configuration
\* in its roadmap graph or its nearest-neighbour index.
C9_InvalidStartIsStatus ==
    (~env.startValid /\ ~seq.ptc /\ seq.pc \in {"done", "aborted"}) =>
        /\ seq.status = "INVALID_START"
        /\ thrown = "none"
        /\ \A k \in Levels : level(seq, k).graphV = <<>> /\ level(seq, k).nn = <<>>

\* C11: no two paths of the path stack are path-visibility-equivalent.
C11_StackedPathsDistinct ==
    \A i \in 1 .. Len(sparse.pathStack) : \A j \in 1 .. Len(sparse.pathStack) :
        i # j => ~IsPathVisible(sparse.pathStack[i], sparse.pathStack[j])

\* three paths are stacked and a candidate was rejected after the first push
C11_Witness ==
    /\ Len(sparse.pathStack) >= 3
    /\ sparse.numberOfFailedAddingPathCalls >= 2
    /\ sparse.rejectedInARow = 0

\* C12: the path stack never holds more than Nhead paths (so no candidate is
\* pushed once Nhead paths are stacked).
C12_AtMostNheadStacked == Len(sparse.pathStack) <= Nhead

\* C13: the counter of failed calls is the number of candidates rejected in a
\* row, and the search examines no candidate after 10 rejections in a row.
C13_StopsAfterTenInARow ==
    /\ sparse.numberOfFailedAddingPathCalls = sparse.rejectedInARow
    /\ sparse.rejectedInARow <= MaxFailedCalls

\* C14: the representativeIndex of every dense configuration is the sentinel
\* or the index of a vertex of the sparse graph.
C14_RepresentativeIsLive ==
    \A q \in SeqToSet(bsg.graphV) :
        bsg.confs[q].representativeIndex \in 0 .. Len(sparse.graphSparseV)

\* PopGrow is enabled: solve is at the head of the loop, running, and a top
\* level can grow
canPopGrow ==
    /\ seq.pc = "head"
    /\ ~stops(seq)
    /\ \E k \in top(seq) : QMP_hasRoom(level(seq, k))

\* PopGrow is enabled with a grow() that adds a vertex to its level
canAddVertex ==
    /\ canPopGrow
    /\ \E k \in top(seq) :
         /\ QMP_hasRoom(level(seq, k))
         /\ \E r \in QMPImpl_grow(level(seq, k)) :
              r.thrown = "none" /\ Len(r.g.graphV) > Len(level(seq, k).graphV)

\* a step of PopGrow: the only step from the head of the loop to a grown level
\* or to an exception
popGrowStep == seq.pc = "head" /\ seq'.pc \in {"grown", "aborted"}

\* a step of PopGrow whose grow() adds a vertex to its level
GrowAddsVertex ==
    /\ popGrowStep
    /\ \E k \in Levels : Len(level(seq', k).graphV) > Len(level(seq, k).graphV)

\* solve under a scheduler that keeps running: every step of the loop is
\* taken (weak fairness of PopGrow, written out), and a grow() that can add a
\* vertex again and again does add one (strong fairness, written out).  The
\* termination condition may fire or not.
SpecSequenceFair ==
    /\ SpecSequence
    /\ WF_vars(SolveEnter) /\ WF_vars(PushAdvance) /\ WF_vars(SolveReturn)
    /\ ([]<>(~canPopGrow) \/ []<><<popGrowStep>>_vars)
    /\ (<>[](~canAddVertex) \/ []<><<GrowAddsVertex>>_vars)

\* solve is at the head of the loop, running, and level k can still grow
waitsForGrow(k) ==
    /\ seq.pc = "head"
    /\ ~stops(seq)
    /\ k \in seq.priorityQueue
    /\ QMP_hasRoom(level(seq, k))

\* level k was popped and grown, or solve left the loop
grownOrLeft(k) ==
    \/ seq.pc = "grown" /\ seq.grown = k
    \/ stops(seq)
    \/ seq.pc \in {"done", "aborted"}

\* solve returned with every level of the stack solved
solvedAllLevels ==
    /\ seq.pc = "done"
    /\ seq.stopAtLevel = NLevels - 1
    /\ seq.status = "EXACT_SOLUTION"

growInputs(g) ==
    LET card == IF env.variant = "multilevel" THEN Len(g.nn) + 1 ELSE Len(g.nn)
    IN  UNION {IF c[2] = -1 THEN {}
               ELSE UNION {{[q_nearest |-> c[1], xs |-> c[2], nbh |-> nbh] :
                               nbh \in sortedLists(g, S, c[2])} :
                           S \in neighbourSets(g, c[2], card)} :
               c \in steerCandidates(g)}

\* the parent, cost and line cost grow() chooses for q_new on the input in
chosenParent(g, in) ==
    LET lc == motionCost(g.confs[in.q_nearest].state, in.xs)
        c0 == combineCosts(g.confs[in.q_nearest].cost, lc)
    IN  chooseParent(allocConfiguration(g, in.xs), in.nbh, in.q_nearest, in.xs,
            [lineCost |-> lc, cost |-> c0, parent |-> in.q_nearest,
             valid |-> <<>>, lineCosts |-> <<>>,
             nearestEntry |-> IF env.variant = "multilevel" THEN c0 ELSE lc], 1)

\* the candidates for the parent of q_new and the cost of q_new through one
candidates(in) == SeqToSet(in.nbh) \cup {in.q_nearest}
costThrough(g, in, q) ==
    combineCosts(g.confs[q].cost, motionCost(g.confs[q].state, in.xs))

\* the order in which the candidates are met: q_nearest, then the neighbours
encountered(in, q) ==
    IF q = in.q_nearest THEN 0
    ELSE CHOOSE i \in 1 .. Len(in.nbh) :
            in.nbh[i] = q /\ \A j \in 1 .. (i - 1) : in.nbh[j] # q

\* the parent chosen on the input in is a candidate of least cost among the
\* candidates that satisfy eligible, the first one met among those of least cost
choosesBestOf(g, in, eligible(_)) ==
    LET cp == chosenParent(g, in)
    IN  /\ cp.parent \in candidates(in)
        /\ eligible(cp.parent)
        /\ cp.cost = costThrough(g, in, cp.parent)
        /\ \A q \in candidates(in) :
              eligible(q) =>
                 /\ cp.cost <= costThrough(g, in, q)
                 /\ cp.cost = costThrough(g, in, q) => encountered(in, cp.parent) <= encountered(in, q)

\* the roadmap of a running QRRTStarImpl
treePlannerRuns == env.variant \in {"multilevel", "quotientspace"} /\ ~bsg.firstRun /\ thrown = "none"

sameTreeFields(q) ==
    /\ bsg'.confs[q].parent = bsg.confs[q].parent
    /\ bsg'.confs[q].lineCost = bsg.confs[q].lineCost
    /\ bsg'.confs[q].cost = bsg.confs[q].cost

\* C17 (as stated): no grow() changes the parent, lineCost or cost of the
\* start configuration or of a recorded goal configuration.
C17_StartAndGoalsUntouched ==
    [][treePlannerRuns =>
          \A q \in {bsg.qStart} \cup SeqToSet(bsg.goalConfigurations) : sameTreeFields(q)]_vars

\* C17 (amended): no grow() changes the parent, lineCost or cost of the start
\* configuration; a recorded goal configuration is rewired like any other
\* configuration, and no grow() raises its cost.
C17_StartUntouched ==
    [][treePlannerRuns =>
          /\ sameTreeFields(bsg.qStart)
          /\ \A q \in SeqToSet(bsg.goalConfigurations) :
                bsg'.confs[q].cost <= bsg.confs[q].cost]_vars

\* a recorded goal configuration was rewired to a configuration added after
\* it, with the start among the configurations that have children
C17_Witness ==
    /\ treePlannerRuns
    /\ bsg.confs[bsg.qStart].children # <<>>
    /\ bsg.confs[bsg.qStart].parent = NullConf
    /\ \E q \in SeqToSet(bsg.goalConfigurations) : bsg.confs[q].parent > q

\* C18: after every grow() of the multilevel QRRTStarImpl that leaves goal
\* configurations, qGoal_ is a goal configuration of least cost, bestCost_ is
\* its cost and vGoal_ its index.
C18_GoalIsBestGoalConfiguration ==
    (env.variant = "multilevel" /\ treePlannerRuns /\ bsg.goalConfigurations # <<>>) =>
        /\ bsg.qGoal \in SeqToSet(bsg.goalConfigurations)
        /\ \A q \in SeqToSet(bsg.goalConfigurations) :
              bsg.confs[bsg.qGoal].cost <= bsg.confs[q].cost
        /\ bsg.bestCost = bsg.confs[bsg.qGoal].cost
        /\ bsg.vGoal = bsg.confs[bsg.qGoal].index

\* two goal configurations are recorded, and qGoal_ is one whose cost a rewire
\* lowered below that of the other
C18_Witness ==
    /\ env.variant = "multilevel" /\ treePlannerRuns
    /\ Len(bsg.goalConfigurations) >= 2
    /\ bsg.confs[bsg.qGoal].parent > bsg.qGoal
    /\ \E q \in SeqToSet(bsg.goalConfigurations) :
          bsg.confs[bsg.qGoal].cost < bsg.confs[q].cost

\* the multilevel tree with q_new inserted under its chosen parent, before
\* the rewiring loop
treeBeforeRewire(g, in) ==
    LET q_new == Len(g.confs) + 1
        cp == chosenParent(g, in)
        ga == allocConfiguration(g, in.xs)
        gb == [ga EXCEPT !.confs[q_new].lineCost = cp.lineCost,
                         !.confs[q_new].cost = cp.cost,
                         !.confs[q_new].parent = cp.parent]
        gc == addConfiguration(gb, q_new)
    IN  [gc EXCEPT !.confs[cp.parent].children = Append(@, q_new)]

\* the line costs of the neighbours as the non-symmetric branch computes them
recomputedLineCosts(g, in) ==
    [i \in 1 .. Len(in.nbh) |-> motionCost(in.xs, g.confs[in.nbh[i]].state)]

\* C19: in a symmetric state space the line cost cached for every neighbour
\* examined by the rewiring loop is motionCost(q.state, x_new.state), and the
\* rewiring loop leaves the tree it leaves with the recomputed costs.
C19_CachedLineCosts ==
    (treePlannerRuns /\ env.symmetric) =>
        \A in \in growInputs(bsg) :
            LET cp == chosenParent(bsg, in)
                q_new == Len(bsg.confs) + 1
                st == [g |-> treeBeforeRewire(bsg, in), check |-> FALSE]
            IN  /\ \A i \in 1 .. Len(in.nbh) :
                      in.nbh[i] # cp.parent =>
                          cp.lineCosts[i] = motionCost(bsg.confs[in.nbh[i]].state, in.xs)
                /\ env.variant = "multilevel" =>
                      rewire(st, in.nbh, q_new, cp, 1) =
                      rewire(st, in.nbh, q_new,
                             [cp EXCEPT !.lineCosts = recomputedLineCosts(bsg, in)], 1)

\* the roadmap g has an edge between the vertices a and b
hasEdge(g, a, b) == <<a, b>> \in BagToSet(g.graphE) \/ <<b, a>> \in BagToSet(g.graphE)

\* the roadmap a grow() of QMP works on after its first-run block
afterFirstRun(g) == IF g.firstRun THEN [init(g).g EXCEPT !.firstRun = FALSE] ELSE g

\* C20: the vertex a grow() of QMP inserts has an edge to every queried
\* neighbour with a valid motion to it, and so at least one incident edge,
\* before and after the level has a solution.
C20_InsertedVertexIsJoined ==
    [][(env.variant = "qmp" /\ thrown = "none" /\ thrown' = "none"
          /\ Len(bsg'.graphV) > Len(afterFirstRun(bsg).graphV)) =>
          LET g0 == afterFirstRun(bsg)
              v == Len(g0.graphV) + 1
              xs == bsg'.confs[bsg'.graphV[v]].state
          IN  /\ \E u \in 1 .. Len(bsg'.graphV) : hasEdge(bsg', u, v)
              /\ \A xRandom \in Points : \A nbrs \in nearestK(g0, xRandom) :
                    bsg' \in QMP_connect([g |-> g0, xr |-> xRandom, found |-> FALSE,
                                         v_next |-> 0, q_next |-> NullConf], nbrs, 1)
                    => \A i \in 1 .. Len(nbrs) :
                          checkMotionState(g0.confs[nbrs[i]].state, xs)
                          => hasEdge(bsg', g0.confs[nbrs[i]].index, v)]_vars

\* the dense roadmap after a grow() inserted the sample x: the new
\* configuration is the last one of confs
denseSample(g, x) ==
    LET q == Len(g.confs) + 1
        g1 == addConfiguration(allocConfiguration(g, x), q)
    IN  connectDense(g1, q, g1.nn)

\* a level with a sparse graph that can take one more sample
sparseLevelGrows ==
    env.variant = "sparse" /\ ~bsg.firstRun /\ Len(bsg.graphV) < MaxVertices

\* checkAddCoverage on the sample x with the neighbourhoods n: it fires and
\* the sample is the new last sparse vertex, a component of its own, or it
\* does not fire and nothing changes
coverageAddsOrLeaves(x, n) ==
    LET g == denseSample(bsg, x)
        r == checkAddCoverage(g, sparse, Len(g.confs), n.visibleNeighborhood)
        v == Len(sparse.graphSparseV) + 1
    IN  IF r.fired
        THEN \A o \in r.out :
                /\ o.sp.graphSparseV = Append(sparse.graphSparseV, x)
                /\ o.sp.graphSparseE = sparse.graphSparseE
                /\ \A w \in 1 .. v : sameComponentSparse(o.sp, v, w) <=> w = v
        ELSE r.out = {[g |-> g, sp |-> sparse]}

\* C21 (as stated): checkAddCoverage adds the sample as a guard exactly when
\* no sparse vertex lies within sparseDelta of it; otherwise it returns false
\* and leaves the sparse graph, its index and its disjoint sets unchanged.
C21_CoverageIffNoSparseNeighbour ==
    sparseLevelGrows =>
        \A x \in Points : \A n \in findGraphNeighbors(sparse, x) :
            LET g == denseSample(bsg, x)
            IN  /\ checkAddCoverage(g, sparse, Len(g.confs), n.visibleNeighborhood).fired
                      <=> sparseWithin(sparse, x, env.sparseDelta) = {}
                /\ coverageAddsOrLeaves(x, n)

\* C21 (amended): checkAddCoverage adds the sample as a guard exactly when no
\* sparse vertex within sparseDelta of it is visible from it (checkMotion);
\* otherwise it returns false and leaves the sparse graph, its index and its
\* disjoint sets unchanged.
C21_CoverageIffNoVisibleNeighbour ==
    sparseLevelGrows =>
        \A x \in Points : \A n \in findGraphNeighbors(sparse, x) :
            LET g == denseSample(bsg, x)
            IN  /\ checkAddCoverage(g, sparse, Len(g.confs), n.visibleNeighborhood).fired
                      <=> \A v \in sparseWithin(sparse, x, env.sparseDelta) :
                              ~checkMotionState(x, sparse.graphSparseV[v])
                /\ coverageAddsOrLeaves(x, n)

\* a sample with sparse vertices within sparseDelta, none of them visible, for
\* which checkAddCoverage fires; and one with a visible neighbour
C21_Witness ==
    /\ sparseLevelGrows
    /\ \E x \in Points : \E n \in findGraphNeighbors(sparse, x) :
          /\ n.graphNeighborhood # <<>>
          /\ checkAddCoverage(denseSample(bsg, x), sparse, Len(bsg.confs) + 1,
                              n.visibleNeighborhood).fired
    /\ \E x \in Points : \E n \in findGraphNeighbors(sparse, x) :
          n.visibleNeighborhood # <<>>

\* the sparse components the vertices of the list vn lie in
componentsOf(sp, vn) == {find_set(sp.vparentSparse, vn[i]) : i \in 1 .. Len(vn)}

\* C22: when the visible sparse neighbours of the sample lie in at least two
\* sparse components, checkAddConnectivity adds the sample, and afterwards the
\* new vertex and all those neighbours are in one sparse component; when they
\* lie in one component it returns false and leaves the sparse graph unchanged.
C22_ConnectivityJoinsComponents ==
    sparseLevelGrows =>
        \A x \in Points : \A n \in findGraphNeighbors(sparse, x) :
            LET g == denseSample(bsg, x)
                vn == n.visibleNeighborhood
                r == checkAddConnectivity(g, sparse, Len(g.confs), vn)
                v == Len(sparse.graphSparseV) + 1
            IN  IF Cardinality(componentsOf(sparse, vn)) >= 2
                THEN /\ r.fired
                     /\ \A o \in r.out :
                           /\ o.sp.graphSparseV = Append(sparse.graphSparseV, x)
                           /\ \A i \in 1 .. Len(vn) : sameComponentSparse(o.sp, v, vn[i])
                ELSE /\ ~r.fired
                     /\ r.out = {[g |-> g, sp |-> sparse]}

\* a sample whose visible neighbours lie in two components and for which
\* checkAddConnectivity fires
C22_Witness ==
    /\ sparseLevelGrows
    /\ \E x \in Points : \E n \in findGraphNeighbors(sparse, x) :
          /\ Cardinality(componentsOf(sparse, n.visibleNeighborhood)) >= 2
          /\ checkAddConnectivity(denseSample(bsg, x), sparse, Len(bsg.confs) + 1,
                                  n.visibleNeighborhood).fired

\* a sample with two visible neighbours in one component
C22_OneComponent ==
    /\ sparseLevelGrows
    /\ \E x \in Points : \E n \in findGraphNeighbors(sparse, x) :
          /\ Len(n.visibleNeighborhood) >= 2
          /\ Cardinality(componentsOf(sparse, n.visibleNeighborhood)) = 1

\* checkAddPath, n_rep: the representatives of the interface neighbours of q
\* that are vertices of the sparse graph
interfaceRepresentatives(g, sp, q) ==
    {g.confs[g.graphV[n]].representativeIndex : n \in getInterfaceNeighborhood(g, q)}
        \cap (1 .. Len(sp.graphSparseV))

\* the dense configurations with a representative in the sparse graph and
\* with interface neighbours
onInterface(g, sp) ==
    {q \in SeqToSet(g.graphV) :
        /\ g.confs[q].representativeIndex \in 1 .. Len(sp.graphSparseV)
        /\ getInterfaceNeighborhood(g, q) # {}}

\* C23: for a dense sample q with interface neighbours, if the spanner path
\* through the representative of q is longer than stretchFactor times the
\* shortest dense path (s_max > t * d_min), checkAddPath adds that dense path
\* to the sparse graph and returns true.
C23_PathQualityAddsDensePath ==
    env.variant = "sparse" =>
        \A q \in onInterface(bsg, sparse) :
            pathQualityHits(bsg, sparse, q, interfaceRepresentatives(bsg, sparse, q)) # {} =>
                checkAddPath(bsg, sparse, q).fired

\* C24: once the path stack of a level is non-empty and the level above is
\* not dynamic, every sampleQuotient call succeeds and returns a point of the
\* stacked path at index selectedPath, which is in [0, number of stacked
\* paths): "Unknown selected path" is not thrown in a run that enumerated
\* paths.
C24_SampleFromStackSucceeds ==
    [][(env.variant = "sampling" /\ SampleQuotient
          /\ ~env.childDynamic /\ Len(sparse.pathStack) > 0) =>
          /\ thrown' = "none"
          /\ sparse.selectedPath \in 0 .. (Len(sparse.pathStack) - 1)
          /\ sparse'.q_random_graph.from = "path"
          /\ sparse'.q_random_graph.path = sparse.pathStack[sparse.selectedPath + 1]]_vars

\* the sparse graph has its components right: sameComponentSparse(a, b) is
\* true exactly when a path of the sparse graph joins a and b
componentsArePathsSparse(sp) ==
    \A a, b \in 1 .. Len(sp.graphSparseV) :
        sameComponentSparse(sp, a, b) <=> b \in reachSparse(sp, {a})

\* C25: after any sequence of addConfigurationSparse, addEdgeSparse and
\* removeReducibleLoops, sameComponentSparse(a, b) is true exactly when a and
\* b are joined by a path of the sparse graph; a removal of reducible edges
\* leaves every two sparse vertices that were joined by a path joined.
C25_SparseComponentsArePaths ==
    /\ [](env.variant = "spanner" => componentsArePathsSparse(sparse))
    /\ [][(env.variant = "spanner" /\ Len(sparse'.graphSparseE) < Len(sparse.graphSparseE)) =>
             \A a \in 1 .. Len(sparse.graphSparseV) :
                 reachSparse(sparse', {a}) = reachSparse(sparse, {a})]_vars

\* removeReducibleLoops removed an edge (the graph has fewer edges than
\* enumerateAllPaths counted before the removal) of a sparse graph with two
\* components
C25_Witness ==
    /\ env.variant = "spanner"
    /\ Len(sparse.graphSparseE) < sparse.Nold_e
    /\ \E a, b \in 1 .. Len(sparse.graphSparseV) : ~sameComponentSparse(sparse, a, b)

\* the sparse graph differs from the one the previous enumeration left
changedSinceEnumeration(sp) ==
    \/ Len(sp.graphSparseV) # sp.enumerated.vertices
    \/ edgesSparse(sp) # sp.enumerated.edges

\* C28: on a solved non-dynamic level that enumerated before, a call of
\* enumerateAllPaths enumerates again (hasSparseGraphChanged is true) exactly
\* when the vertices or the edges of the sparse graph differ from those the
\* previous enumeration left; it skips only when the graph is unchanged.
C28_ReenumeratesIffChanged ==
    (env.variant = "spanner" /\ sparse.pc = "idle"
        /\ bsg.hasSolution /\ sparse.enumerated.done) =>
        (hasSparseGraphChanged(sparse) <=> changedSinceEnumeration(sparse))

\* the dense index qi is in the non-interface list or an interface list of
\* the sparse vertex m
listedUnder(sp, m, qi) ==
    \/ qi \in sp.nonInterfaceIndexList[m]
    \/ \E k \in 0 .. MaxSparse : qi \in sp.interfaceIndexList[m][k]

\* C29: after removeFromRepresentatives(q) the dense index of q is in neither
\* the non-interface list nor an interface list of its representative; the
\* addToRepresentatives calls of updateRepresentatives never find q already
\* present (no assert(false)), and no dense vertex is listed under two sparse
\* vertices.
C29_RemovedFromRepresentativeLists ==
    env.variant = "sparse" =>
        /\ \A q \in SeqToSet(bsg.nn) :
              LET r == bsg.confs[q].representativeIndex
              IN  r \in 1 .. Len(sparse.graphSparseV) =>
                     ~listedUnder(removeFromRepresentatives(bsg, sparse, q), r, bsg.confs[q].index)
        /\ sparse.fault # "assert"
        /\ \A q \in SeqToSet(bsg.nn) : \A m1, m2 \in 1 .. Len(sparse.graphSparseV) :
              (listedUnder(sparse, m1, bsg.confs[q].index)
                  /\ listedUnder(sparse, m2, bsg.confs[q].index)) => m1 = m2

\* C30: when the level above is not dynamic and the stack is non-empty, a
\* sampleQuotient call with a selectedPath in [0, pathStack_.size()) reads
\* pathStackHead_ and the two waypoints within bounds: pathStackHead_ has an
\* entry for every index below pathStack_.size(), and for a path of N states
\* both waypoint indices are in [0, N - 1].
C30_SelectedPathWithinHead ==
    (env.variant = "sampling" /\ sparse.pc = "idle"
        /\ ~env.childDynamic /\ Len(sparse.pathStack) > 0) =>
        /\ Len(sparse.pathStackHead) = Len(sparse.pathStack)
        /\ \A sel \in 0 .. (Len(sparse.pathStack) - 1) :
              \A N \in 2 .. MaxStates : \A k \in 0 .. (N - 1) :
                 /\ sampleQuotient(sparse, sel, N, k).thrown = "none"
                 /\ waypoints(N, k).s1 \in 0 .. (N - 1)
                 /\ waypoints(N, k).s2 \in 0 .. (N - 1)

\* every configuration of the nearest-neighbour index of g that has a parent
\* is among the children of its parent and has the cost of its parent
\* combined with its lineCost
indexedTreeConsistent(g) ==
    \A q \in SeqToSet(g.nn) :
        g.confs[q].parent # NullConf =>
            /\ q \in SeqToSet(g.confs[g.confs[q].parent].children)
            /\ g.confs[q].cost = combineCosts(g.confs[g.confs[q].parent].cost, g.confs[q].lineCost)

\* C26: after a grow() of the quotientspace QRRTStarImpl that satisfies the
\* goal, every configuration of the nearest-neighbour index that has a parent,
\* the goal vertex qGoal_ included, is listed in its parent's children and has
\* cost = combineCosts(parent.cost, lineCost).
C26_GoalGrowKeepsTree ==
    [][(env.variant = "quotientspace" /\ thrown' = "none"
          /\ Len(bsg'.goalConfigurations) > Len(bsg.goalConfigurations)) =>
          indexedTreeConsistent(bsg')]_vars

\* the motion between the two ends of the edge e of the roadmap of g is valid
edgeIsValid(g, e) ==
    checkMotionState(g.confs[g.graphV[e[1]]].state, g.confs[g.graphV[e[2]]].state)

\* C27: every edge of the roadmap of a level joins two configurations whose
\* connecting motion passes checkMotion, the edge that attaches the goal
\* vertex when the goal is first satisfied included.
C27_EveryEdgeValidated ==
    (env.variant \in {"multilevel", "quotientspace"} /\ thrown = "none") =>
        \A e \in BagToSet(bsg.graphE) : edgeIsValid(bsg, e)

====
